---------------------------- MODULE Spec2Model ----------------------------
(***************************************************************************)
(* A model of gemchat: the terminal chat client of src/src/main.rs, its    *)
(* streaming decoder (src/src/ai.rs) and its tool executor                 *)
(* (src/src/tools.rs).                                                     *)
(*                                                                         *)
(* Text is a sequence of Unicode code points, wire data a sequence of      *)
(* bytes (0..255).  Roles, tags and program counters are TLA+ strings.     *)
(***************************************************************************)
EXTENDS Integers, Sequences, FiniteSets, TLC

(***************************************************************************)
(* Program constants: the literals of the source.                          *)
(***************************************************************************)
LF == 10
CR == 13
Replacement == 65533
SpinnerFrames == 10
MaxI32 == 2147483647
MinI32 == (-2147483647) - 1

DataPrefix == <<100, 97, 116, 97, 58, 32>>   \* "data: "
K_candidates == <<99, 97, 110, 100, 105, 100, 97, 116, 101, 115>>   \* "candidates"
K_content == <<99, 111, 110, 116, 101, 110, 116>>   \* "content"
K_parts == <<112, 97, 114, 116, 115>>   \* "parts"
K_text == <<116, 101, 120, 116>>   \* "text"
K_functionCall == <<102, 117, 110, 99, 116, 105, 111, 110, 67, 97, 108, 108>>   \* "functionCall"
K_name == <<110, 97, 109, 101>>   \* "name"
K_args == <<97, 114, 103, 115>>   \* "args"
K_usageMetadata == <<117, 115, 97, 103, 101, 77, 101, 116, 97, 100, 97, 116, 97>>   \* "usageMetadata"
K_promptTokenCount == <<112, 114, 111, 109, 112, 116, 84, 111, 107, 101, 110, 67, 111, 117, 110, 116>>   \* "promptTokenCount"
K_candidatesTokenCount == <<99, 97, 110, 100, 105, 100, 97, 116, 101, 115, 84, 111, 107, 101, 110, 67, 111, 117, 110, 116>>   \* "candidatesTokenCount"
K_totalTokenCount == <<116, 111, 116, 97, 108, 84, 111, 107, 101, 110, 67, 111, 117, 110, 116>>   \* "totalTokenCount"
S_MockPrefix == <<40, 77, 111, 99, 107, 32, 65, 73, 41, 58, 32>>   \* "(Mock AI): "
S_IReceived == <<73, 32, 114, 101, 99, 101, 105, 118, 101, 100, 58, 32, 39>>   \* "I received: '"
S_QuoteDotLf == <<39, 46, 10>>   \* "'.\n"
S_SetKey == <<83, 101, 116, 32, 71, 69, 77, 73, 78, 73, 95, 65, 80, 73, 95, 75, 69, 89, 32, 102, 111, 114, 32, 114, 101, 97, 108, 32, 114, 101, 115, 112, 111, 110, 115, 101, 115, 46>>   \* "Set GEMINI_API_KEY for real responses."
S_Error == <<69, 114, 114, 111, 114, 58, 32>>   \* "Error: "
S_ApiError == <<65, 80, 73, 32, 69, 114, 114, 111, 114, 32>>   \* "API Error "
S_ColonSpace == <<58, 32>>   \* ": "
S_NoBody == <<67, 111, 117, 108, 100, 32, 110, 111, 116, 32, 114, 101, 97, 100, 32, 101, 114, 114, 111, 114, 32, 98, 111, 100, 121>>   \* "Could not read error body"
S_Welcome == <<87, 101, 108, 99, 111, 109, 101, 32, 116, 111, 32, 116, 104, 101, 32, 65, 73, 32, 67, 104, 97, 116, 32, 84, 85, 73, 33>>   \* "Welcome to the AI Chat TUI!"
S_SetEnv == <<83, 101, 116, 32, 71, 69, 77, 73, 78, 73, 95, 65, 80, 73, 95, 75, 69, 89, 32, 101, 110, 118, 32, 118, 97, 114, 32, 102, 111, 114, 32, 114, 101, 97, 108, 32, 65, 73, 46>>   \* "Set GEMINI_API_KEY env var for real AI."
S_null == <<110, 117, 108, 108>>   \* "null"
S_true == <<116, 114, 117, 101>>   \* "true"
S_false == <<102, 97, 108, 115, 101>>   \* "false"

(***************************************************************************)
(* Sequence helpers.                                                       *)
(***************************************************************************)
StartsWith(s, p) == Len(s) >= Len(p) /\ SubSeq(s, 1, Len(p)) = p

Drop(s, n) == SubSeq(s, n + 1, Len(s))

RECURSIVE Flatten(_)
Flatten(ss) == IF ss = <<>> THEN <<>> ELSE Head(ss) \o Flatten(Tail(ss))

\* str::find('\n'): the index of the first c in s, 0 when there is none.
Find(s, c) ==
    IF \E i \in 1..Len(s) : s[i] = c
    THEN CHOOSE i \in 1..Len(s) : s[i] = c /\ \A j \in 1..(i - 1) : s[j] # c
    ELSE 0

(***************************************************************************)
(* String::from_utf8_lossy: the code points of a byte string, each maximal *)
(* ill-formed byte run replaced by one U+FFFD; a sequence cut short by the *)
(* end of the input is ill-formed.                                         *)
(***************************************************************************)
from_utf8_lossy(bytes) ==
    LET n == Len(bytes)
        IsCont(b) == b >= 128 /\ b <= 191
        \* The first index at or after i of a byte that is not ASCII, n + 1 if none.
        AsciiRunEnd(i) ==
            IF \E j \in i..n : bytes[j] >= 128
            THEN CHOOSE j \in i..n : bytes[j] >= 128 /\ \A k \in i..(j - 1) : bytes[k] < 128
            ELSE n + 1
        Unit(cp, next) == [cp |-> cp, next |-> next]
        \* The code point decoded at the non-ASCII byte at i, and where decoding goes on.
        Utf8Unit(i) ==
            LET b1 == bytes[i]
                has(k) == i + k <= n
                lo2 == IF b1 = 224 THEN 160 ELSE IF b1 = 240 THEN 144 ELSE 128
                hi2 == IF b1 = 237 THEN 159 ELSE IF b1 = 244 THEN 143 ELSE 191
                ok2 == has(1) /\ bytes[i + 1] >= lo2 /\ bytes[i + 1] <= hi2
            IN
            IF b1 >= 194 /\ b1 <= 223 THEN
              IF has(1) /\ IsCont(bytes[i + 1])
              THEN Unit((b1 - 192) * 64 + (bytes[i + 1] - 128), i + 2)
              ELSE Unit(Replacement, i + 1)
            ELSE IF b1 >= 224 /\ b1 <= 239 THEN
              IF ~ok2 THEN Unit(Replacement, i + 1)
              ELSE IF has(2) /\ IsCont(bytes[i + 2])
              THEN Unit((b1 - 224) * 4096 + (bytes[i + 1] - 128) * 64
                            + (bytes[i + 2] - 128), i + 3)
              ELSE Unit(Replacement, i + 2)
            ELSE IF b1 >= 240 /\ b1 <= 244 THEN
              IF ~ok2 THEN Unit(Replacement, i + 1)
              ELSE IF ~(has(2) /\ IsCont(bytes[i + 2])) THEN Unit(Replacement, i + 2)
              ELSE IF has(3) /\ IsCont(bytes[i + 3])
              THEN Unit((b1 - 240) * 262144 + (bytes[i + 1] - 128) * 4096
                            + (bytes[i + 2] - 128) * 64 + (bytes[i + 3] - 128), i + 4)
              ELSE Unit(Replacement, i + 3)
            ELSE Unit(Replacement, i + 1)
        RECURSIVE From(_)
        \* An ASCII run is copied; u is the unit decoded after it.
        Emit(run, u) == run \o <<u.cp>> \o From(u.next)
        After(i0, i) ==
            IF i > n THEN SubSeq(bytes, i0, n)
            ELSE Emit(SubSeq(bytes, i0, i - 1), Utf8Unit(i))
        From(i0) == After(i0, AsciiRunEnd(i0))
    IN From(1)

(***************************************************************************)
(* serde_json::Value.  A value is a tagged record.  An object is a map     *)
(* kept in key order (serde_json's default BTreeMap): k and v are parallel *)
(* sequences, keys ascending and unique.  An integer keeps its sign and    *)
(* its magnitude as four 16-bit limbs, least significant first.  lex is    *)
(* the number's text on the wire.                                          *)
(***************************************************************************)
JNull == [t |-> "null"]

JBool(b) == [t |-> "bool", b |-> b]

JStr(s) == [t |-> "str", str |-> s]

JArr(a) == [t |-> "arr", a |-> a]

JObj(k, v) == [t |-> "obj", k |-> k, v |-> v]

JInt(neg, mag, lex) == [t |-> "int", neg |-> neg, mag |-> mag, lex |-> lex]

JFloat(lex) == [t |-> "float", lex |-> lex]

None == [some |-> FALSE, v |-> JNull]

Some(x) == [some |-> TRUE, v |-> x]

(***************************************************************************)
(* serde_json::from_str::<Value>: Some(value) when s is one JSON value     *)
(* with only white space around it, None otherwise.  A parse step gives    *)
(* [ok, pos, val]: whether it succeeded, the index after what it read, and *)
(* the value read.                                                         *)
(***************************************************************************)
from_str(s) ==
    LET n == Len(s)
        PFail == [ok |-> FALSE, pos |-> 0, val |-> JNull]
        POk(p, v) == [ok |-> TRUE, pos |-> p, val |-> v]
        At(i, c) == i <= n /\ s[i] = c
        IsDigit(c) == c >= 48 /\ c <= 57
        DigitAt(i) == i <= n /\ IsDigit(s[i])
        RECURSIVE SkipWs(_)
        SkipWs(i) == IF i <= n /\ s[i] \in {32, 9, 10, 13} THEN SkipWs(i + 1) ELSE i
        RECURSIVE SkipDigits(_)
        SkipDigits(i) == IF DigitAt(i) THEN SkipDigits(i + 1) ELSE i

        \* Lexicographic order on text (String's Ord).
        RECURSIVE TextLess(_, _)
        TextLess(a, b) ==
            IF b = <<>> THEN FALSE
            ELSE IF a = <<>> THEN TRUE
            ELSE IF Head(a) # Head(b) THEN Head(a) < Head(b)
            ELSE TextLess(Tail(a), Tail(b))
        \* Map::insert: the entry goes to its place in key order; an equal key
        \* keeps its place and takes the new value.
        RECURSIVE MapInsert(_, _, _, _)
        MapInsert(m, key, val, i) ==
            IF i > Len(m.k) THEN JObj(Append(m.k, key), Append(m.v, val))
            ELSE IF m.k[i] = key THEN JObj(m.k, [m.v EXCEPT ![i] = val])
            ELSE IF TextLess(key, m.k[i])
              THEN JObj(SubSeq(m.k, 1, i - 1) \o <<key>> \o SubSeq(m.k, i, Len(m.k)),
                        SubSeq(m.v, 1, i - 1) \o <<val>> \o SubSeq(m.v, i, Len(m.v)))
            ELSE MapInsert(m, key, val, i + 1)

        \* ---- strings ----
        HexVal(c) ==
            IF IsDigit(c) THEN c - 48
            ELSE IF c >= 97 /\ c <= 102 THEN c - 87
            ELSE IF c >= 65 /\ c <= 70 THEN c - 55
            ELSE -1
        \* The four hex digits of a \u escape at s[i..i+3]: their value, -1 if malformed.
        Hex4(i) ==
            IF i + 3 > n THEN -1
            ELSE IF \E j \in 0..3 : HexVal(s[i + j]) < 0 THEN -1
            ELSE HexVal(s[i]) * 4096 + HexVal(s[i + 1]) * 256
                     + HexVal(s[i + 2]) * 16 + HexVal(s[i + 3])
        SimpleEscape(c) ==
            CASE c = 34 -> 34
              [] c = 92 -> 92
              [] c = 47 -> 47
              [] c = 98 -> 8
              [] c = 102 -> 12
              [] c = 110 -> 10
              [] c = 114 -> 13
              [] c = 116 -> 9
              [] OTHER -> -1
        \* Inside a string literal a quote ends it, a backslash escapes and a
        \* control character is an error; any other character stands for itself.
        IsPlain(c) == c # 34 /\ c # 92 /\ c >= 32
        PlainRunEnd(i) ==
            IF \E j \in i..n : ~IsPlain(s[j])
            THEN CHOOSE j \in i..n : ~IsPlain(s[j]) /\ \A k \in i..(j - 1) : IsPlain(s[k])
            ELSE n + 1
        RECURSIVE StringBody(_, _)
        \* A \uXXXX escape at s[i] with value h; l is the value of the \uXXXX after
        \* it, -1 when there is none.  A lone surrogate is an error, a pair is one
        \* character.
        UnicodeEscape(i, acc, h, l) ==
            IF h < 0 THEN PFail
            ELSE IF h >= 56320 /\ h <= 57343 THEN PFail
            ELSE IF h >= 55296 /\ h <= 56319 THEN
              IF l >= 56320 /\ l <= 57343
              THEN StringBody(i + 12, Append(acc, 65536 + (h - 55296) * 1024 + (l - 56320)))
              ELSE PFail
            ELSE StringBody(i + 6, Append(acc, h))
        \* The character s[i] that ended a run of plain characters.
        Special(i, acc) ==
            IF i > n THEN PFail
            ELSE IF s[i] = 34 THEN POk(i + 1, JStr(acc))
            ELSE IF s[i] = 92 THEN
              IF i + 1 > n THEN PFail
              ELSE IF s[i + 1] = 117
              THEN UnicodeEscape(i, acc, Hex4(i + 2),
                       IF At(i + 6, 92) /\ At(i + 7, 117) THEN Hex4(i + 8) ELSE -1)
              ELSE IF SimpleEscape(s[i + 1]) < 0 THEN PFail
              ELSE StringBody(i + 2, Append(acc, SimpleEscape(s[i + 1])))
            ELSE PFail
        Run(i0, acc, i) == Special(i, acc \o SubSeq(s, i0, i - 1))
        \* The rest of a string literal, from the character after its opening quote.
        StringBody(i0, acc) == Run(i0, acc, PlainRunEnd(i0))

        \* ---- numbers ----
        \* mag * 10 + d on four 16-bit limbs; the fifth item is the carry out.
        MulAdd10(mag, d) ==
            LET c1 == mag[1] * 10 + d
                c2 == mag[2] * 10 + (c1 \div 65536)
                c3 == mag[3] * 10 + (c2 \div 65536)
                c4 == mag[4] * 10 + (c3 \div 65536)
            IN <<c1 % 65536, c2 % 65536, c3 % 65536, c4 % 65536, c4 \div 65536>>
        RECURSIVE ScanDigits(_, _, _)
        ScanNext(i, m, big) == ScanDigits(i + 1, SubSeq(m, 1, 4), big \/ m[5] > 0)
        \* The digits from s[i] on: where they end, their value, and whether it
        \* passed 64 bits.
        ScanDigits(i, mag, big) ==
            IF DigitAt(i) THEN ScanNext(i, MulAdd10(mag, s[i] - 48), big)
            ELSE [pos |-> i, mag |-> mag, big |-> big]
        \* The number s[i..e-1] whose integer part is d: one with a fraction or an
        \* exponent (isFloat), "-0", and an integer outside 64 bits are floats.
        NumberValue(i, d, isFloat, e) ==
            LET neg == s[i] = 45
                negFits == d.mag[4] < 32768 \/ d.mag = <<0, 0, 0, 32768>>
            IN IF isFloat \/ d.big \/ (neg /\ (d.mag = <<0, 0, 0, 0>> \/ ~negFits))
               THEN POk(e, JFloat(SubSeq(s, i, e - 1)))
               ELSE POk(e, JInt(neg, d.mag, SubSeq(s, i, e - 1)))
        \* After the exponent mark and its sign: digits must follow, from x to e.
        ExpDigits(i, d, x, e) == IF e = x THEN PFail ELSE NumberValue(i, d, TRUE, e)
        \* After the fraction, which ended at f (f = d.pos when there is none).
        Exp(i, d, f) ==
            IF f <= n /\ s[f] \in {101, 69}
            THEN IF f + 1 <= n /\ s[f + 1] \in {43, 45}
                 THEN ExpDigits(i, d, f + 2, SkipDigits(f + 2))
                 ELSE ExpDigits(i, d, f + 1, SkipDigits(f + 1))
            ELSE NumberValue(i, d, f > d.pos, f)
        \* After the integer part d: a '.' must be followed by digits.
        Frac(i, d) ==
            IF At(d.pos, 46)
            THEN IF DigitAt(d.pos + 1) THEN Exp(i, d, SkipDigits(d.pos + 1)) ELSE PFail
            ELSE Exp(i, d, d.pos)
        \* The integer part at s[j]: a lone 0, or digits that do not start with 0.
        IntPart(i, j) ==
            IF ~DigitAt(j) THEN PFail
            ELSE IF s[j] = 48
            THEN IF DigitAt(j + 1) THEN PFail
                 ELSE Frac(i, [pos |-> j + 1, mag |-> <<0, 0, 0, 0>>, big |-> FALSE])
            ELSE Frac(i, ScanDigits(j, <<0, 0, 0, 0>>, FALSE))
        \* '-'? int frac? exp?
        Number(i) == IntPart(i, IF s[i] = 45 THEN i + 1 ELSE i)

        \* ---- values ----
        RECURSIVE Value(_)
        RECURSIVE Elems(_, _)
        RECURSIVE Members(_, _)
        \* After an array element r: a comma and more, or the closing bracket.
        ElemsSep(j, val, acc) ==
            IF At(j, 44) THEN Elems(j + 1, Append(acc, val))
            ELSE IF At(j, 93) THEN POk(j + 1, JArr(Append(acc, val)))
            ELSE PFail
        ElemsAfter(r, acc) == IF ~r.ok THEN PFail ELSE ElemsSep(SkipWs(r.pos), r.val, acc)
        Elems(i, acc) == ElemsAfter(Value(i), acc)
        \* After a member's value: a comma and more, or the closing brace.
        MembersSep(e, m) ==
            IF At(e, 44) THEN Members(e + 1, m)
            ELSE IF At(e, 125) THEN POk(e + 1, m)
            ELSE PFail
        MemberValue(key, r, m) ==
            IF ~r.ok THEN PFail ELSE MembersSep(SkipWs(r.pos), MapInsert(m, key, r.val, 1))
        MemberColon(key, c, m) ==
            IF At(c, 58) THEN MemberValue(key, Value(c + 1), m) ELSE PFail
        MemberKey(key, m) ==
            IF ~key.ok THEN PFail ELSE MemberColon(key.val.str, SkipWs(key.pos), m)
        MemberStart(j, m) == IF At(j, 34) THEN MemberKey(StringBody(j + 1, <<>>), m) ELSE PFail
        Members(i, m) == MemberStart(SkipWs(i), m)
        Object(j) ==
            IF At(j, 125) THEN POk(j + 1, JObj(<<>>, <<>>)) ELSE Members(j, JObj(<<>>, <<>>))
        Array(j) == IF At(j, 93) THEN POk(j + 1, JArr(<<>>)) ELSE Elems(j, <<>>)
        ValueAt(i) ==
            IF i > n THEN PFail
            ELSE IF s[i] = 34 THEN StringBody(i + 1, <<>>)
            ELSE IF s[i] = 123 THEN Object(SkipWs(i + 1))
            ELSE IF s[i] = 91 THEN Array(SkipWs(i + 1))
            ELSE IF s[i] = 45 \/ IsDigit(s[i]) THEN Number(i)
            ELSE IF StartsWith(Drop(s, i - 1), S_null) THEN POk(i + 4, JNull)
            ELSE IF StartsWith(Drop(s, i - 1), S_true) THEN POk(i + 4, JBool(TRUE))
            ELSE IF StartsWith(Drop(s, i - 1), S_false) THEN POk(i + 5, JBool(FALSE))
            ELSE PFail
        Value(i) == ValueAt(SkipWs(i))
        TopLevel(r) == IF r.ok /\ SkipWs(r.pos) = n + 1 THEN Some(r.val) ELSE None
    IN TopLevel(Value(1))

\* Value::get(&str): the member of an object; None for a missing key or a non-object.
Get(val, key) ==
    IF val.t = "obj" /\ \E i \in 1..Len(val.k) : val.k[i] = key
    THEN Some(val.v[CHOOSE i \in 1..Len(val.k) : val.k[i] = key])
    ELSE None

\* Value::get(usize)
GetIdx(val, n) ==
    IF val.t = "arr" /\ n + 1 <= Len(val.a) THEN Some(val.a[n + 1]) ELSE None

\* Option::and_then and Option::unwrap_or
AndThen(opt, F(_)) == IF opt.some THEN F(opt.v) ELSE None

UnwrapOr(opt, default) == IF opt.some THEN opt.v ELSE default

as_str(val) == IF val.t = "str" THEN Some(val.str) ELSE None

as_array(val) == IF val.t = "arr" THEN Some(val.a) ELSE None

\* Value::as_i64: an integer that fits 64 signed bits.
as_i64(val) ==
    IF val.t = "int" /\ (val.neg \/ val.mag[4] < 32768) THEN Some(val) ELSE None

\* `as i32` of an i64: its low 32 bits, two's complement.
as_i32(n) ==
    LET lo == <<n.mag[1], n.mag[2]>>
        Negate32(x) ==
            <<(65536 - x[1]) % 65536,
              (131072 - x[2] - (IF x[1] = 0 THEN 0 ELSE 1)) % 65536>>
        Signed32(x) ==
            IF x[2] >= 32768 THEN (x[2] - 65536) * 65536 + x[1] ELSE x[2] * 65536 + x[1]
    IN Signed32(IF n.neg THEN Negate32(lo) ELSE lo)

\* usage["key"].as_i64().unwrap_or(0) as i32; value["key"] is Null where get is None.
Counter(usage, key) ==
    as_i32(UnwrapOr(as_i64(UnwrapOr(Get(usage, key), JNull)),
                    JInt(FALSE, <<0, 0, 0, 0>>, <<48>>)))

(***************************************************************************)
(* Value::to_string: the compact JSON text of a value.  An integer prints  *)
(* as its canonical decimal text, which is the text it was parsed from; a  *)
(* float is printed from its wire text.                                    *)
(***************************************************************************)
RECURSIVE to_string(_)
to_string(val) ==
    LET HexDigit(n) == IF n < 10 THEN 48 + n ELSE 87 + n
        EscapeChar(c) ==
            CASE c = 34 -> <<92, 34>>
              [] c = 92 -> <<92, 92>>
              [] c = 8 -> <<92, 98>>
              [] c = 12 -> <<92, 102>>
              [] c = 10 -> <<92, 110>>
              [] c = 13 -> <<92, 114>>
              [] c = 9 -> <<92, 116>>
              [] c < 32 /\ c \notin {8, 9, 10, 12, 13} ->
                     <<92, 117, 48, 48, HexDigit(c \div 16), HexDigit(c % 16)>>
              [] OTHER -> <<c>>
        Quote(s) == <<34>> \o Flatten([i \in 1..Len(s) |-> EscapeChar(s[i])]) \o <<34>>
        RECURSIVE Join(_)
        Join(items) ==
            IF items = <<>> THEN <<>>
            ELSE IF Len(items) = 1 THEN items[1]
            ELSE items[1] \o <<44>> \o Join(Tail(items))
    IN
    CASE val.t = "null" -> S_null
      [] val.t = "bool" -> IF val.b THEN S_true ELSE S_false
      [] val.t = "int" -> val.lex
      [] val.t = "float" -> val.lex
      [] val.t = "str" -> Quote(val.str)
      [] val.t = "arr" ->
             <<91>> \o Join([i \in 1..Len(val.a) |-> to_string(val.a[i])]) \o <<93>>
      [] val.t = "obj" ->
             <<123>> \o Join([i \in 1..Len(val.k) |->
                                  Quote(val.k[i]) \o <<58>> \o to_string(val.v[i])]) \o <<125>>

(***************************************************************************)
(* ai::AiUpdate, and the decoding of one line and of one chunk             *)
(* (stream_gemini's loop body).                                            *)
(***************************************************************************)
Content(s) == [type |-> "Content", text |-> s]

ToolCall(n, a) == [type |-> "ToolCall", name |-> n, args |-> a]

Usage(p, r, t) ==
    [type |-> "Usage", prompt_tokens |-> p, response_tokens |-> r, total_tokens |-> t]

Error(m) == [type |-> "Error", msg |-> m]

Finished == [type |-> "Finished"]

\* if let Some(text_chunk) = part.get("text").and_then(|t| t.as_str()) {
\*     tx.send(Content(text_chunk.to_string())) }
TextEvents(part) ==
    LET ContentOf(text_chunk) == IF text_chunk.some THEN <<Content(text_chunk.v)>> ELSE <<>>
    IN ContentOf(AndThen(Get(part, K_text), as_str))

\* if let Some(func_call) = part.get("functionCall") {
\*     if let Some(name) = func_call.get("name").and_then(|n| n.as_str()) {
\*         args = func_call.get("args").unwrap_or(&Null).to_string(); tx.send(ToolCall) } }
ToolEvents(part) ==
    LET ToolCallOf(name, func_call) ==
            IF name.some
            THEN <<ToolCall(name.v, to_string(UnwrapOr(Get(func_call, K_args), JNull)))>>
            ELSE <<>>
        NameOf(func_call) == AndThen(Get(func_call, K_name), as_str)
        CallOf(func_call) ==
            IF func_call.some THEN ToolCallOf(NameOf(func_call.v), func_call.v) ELSE <<>>
    IN CallOf(Get(part, K_functionCall))

PartEvents(part) == TextEvents(part) \o ToolEvents(part)

\* The last candidate of the list instead of its first.
LastCandidate(candidates) ==
    AndThen(candidates,
            LAMBDA c : IF c.t = "arr" /\ c.a # <<>> THEN Some(c.a[Len(c.a)]) ELSE None)

\* The candidate whose parts are read: candidates.get(0).
FirstCandidate(candidates) == AndThen(candidates, LAMBDA c : GetIdx(c, 0))

\* json.get("candidates")?.get(0)?.get("content")?.get("parts")?.as_array(), then
\* for part in parts_array { ... }
CandidateEvents(json) ==
    LET PartsEvents(parts_array) ==
            IF parts_array.some
            THEN Flatten([i \in 1..Len(parts_array.v) |-> PartEvents(parts_array.v[i])])
            ELSE <<>>
        Content_(candidate) == AndThen(candidate, LAMBDA c : Get(c, K_content))
        Parts(content) == AndThen(content, LAMBDA c : Get(c, K_parts))
    IN PartsEvents(AndThen(Parts(Content_(FirstCandidate(Get(json, K_candidates)))), as_array))

\* if let Some(usage) = json.get("usageMetadata") { ...; tx.send(Usage(..)) }
UsageEvents(json) ==
    LET UsageOf(usage) ==
            IF usage.some
            THEN <<Usage(Counter(usage.v, K_promptTokenCount),
                         Counter(usage.v, K_candidatesTokenCount),
                         Counter(usage.v, K_totalTokenCount))>>
            ELSE <<>>
    IN UsageOf(Get(json, K_usageMetadata))

JsonEvents(json) == CandidateEvents(json) \o UsageEvents(json)

\* A rejected payload reported as an error.
MalformedError(json_str) == <<Error(json_str)>>

\* A prefixed line whose payload from_str rejects: the `if let Ok` has no else.
MalformedEvents(json_str) == <<>>

\* line.pop() whatever the line ends with.
PopAlways(line) == SubSeq(line, 1, Len(line) - 1)

\* if line.ends_with('\r') { line.pop(); }
TrimCr(line) ==
    IF Len(line) > 0 /\ line[Len(line)] = CR THEN SubSeq(line, 1, Len(line) - 1) ELSE line

\* The events of one line split off the buffer:
\* if line.starts_with("data: ") { let json_str = &line[6..];
\*     if let Ok(json) = serde_json::from_str(json_str) { ... } }
LineEvents(raw) ==
    LET Decoded(json_str, json) ==
            IF json.some THEN JsonEvents(json.v) ELSE MalformedEvents(json_str)
        Payload(json_str) == Decoded(json_str, from_str(json_str))
        Prefixed(line) ==
            IF StartsWith(line, DataPrefix) THEN Payload(Drop(line, Len(DataPrefix))) ELSE <<>>
    IN Prefixed(TrimCr(raw))

\* while let Some(pos) = buffer.find('\n') { line = buffer[..pos]; buffer = buffer[pos+1..]; .. }
RECURSIVE DrainLines(_, _)
DrainLines(buf, acc) ==
    LET At(p) ==
            IF p = 0 THEN [buffer |-> buf, events |-> acc]
            ELSE DrainLines(Drop(buf, p), acc \o LineEvents(SubSeq(buf, 1, p - 1)))
    IN At(Find(buf, LF))

\* How a chunk's bytes become text before they reach the buffer.
ChunkText(chunk) == from_utf8_lossy(chunk)

\* One iteration of `while let Some(item) = stream.next().await` with an Ok chunk:
\* the buffer it leaves and the events it sends.
Ingest(buf, chunk) == DrainLines(buf \o ChunkText(chunk), <<>>)

(***************************************************************************)
(* Bounds of the model.                                                    *)
(***************************************************************************)
MaxTurns == 2
MaxKeys == 4
MaxTicks == 1
MaxLines == 2
MaxPending == 1
MaxMdLines == 3
MaxCalls == 2

Turns == 1..MaxTurns

(***************************************************************************)
(* The network.  A script is what one request meets: whether it gets out,  *)
(* the status and body of the response, the chunks the response stream     *)
(* delivers, and how the stream stops after them ("end" or a read          *)
(* "error").  Wire lines are bytes.                                        *)
(***************************************************************************)
\* data: {"candidates":[{"content":{"parts":[{"text":"hi"}]}}]}
LnHi == <<100, 97, 116, 97, 58, 32, 123, 34, 99, 97, 110, 100, 105, 100, 97, 116, 101, 115, 34, 58, 91, 123, 34, 99, 111, 110, 116, 101, 110, 116, 34, 58, 123, 34, 112, 97, 114, 116, 115, 34, 58, 91, 123, 34, 116, 101, 120, 116, 34, 58, 34, 104, 105, 34, 125, 93, 125, 125, 93, 125>>

\* data: {"candidates":[{"content":{"parts":[{"text":"é"}]}}]}
LnAccent == <<100, 97, 116, 97, 58, 32, 123, 34, 99, 97, 110, 100, 105, 100, 97, 116, 101, 115, 34, 58, 91, 123, 34, 99, 111, 110, 116, 101, 110, 116, 34, 58, 123, 34, 112, 97, 114, 116, 115, 34, 58, 91, 123, 34, 116, 101, 120, 116, 34, 58, 34, 195, 169, 34, 125, 93, 125, 125, 93, 125>>

\* data: {"candidates":[{"content":{"parts":[{"functionCall":{"name":"run_command","args":{"command":"ls"}}}]}}]}
LnTool == <<100, 97, 116, 97, 58, 32, 123, 34, 99, 97, 110, 100, 105, 100, 97, 116, 101, 115, 34, 58, 91, 123, 34, 99, 111, 110, 116, 101, 110, 116, 34, 58, 123, 34, 112, 97, 114, 116, 115, 34, 58, 91, 123, 34, 102, 117, 110, 99, 116, 105, 111, 110, 67, 97, 108, 108, 34, 58, 123, 34, 110, 97, 109, 101, 34, 58, 34, 114, 117, 110, 95, 99, 111, 109, 109, 97, 110, 100, 34, 44, 34, 97, 114, 103, 115, 34, 58, 123, 34, 99, 111, 109, 109, 97, 110, 100, 34, 58, 34, 108, 115, 34, 125, 125, 125, 93, 125, 125, 93, 125>>

\* data: {"usageMetadata":{"promptTokenCount":1,"candidatesTokenCount":1,"totalTokenCount":3}}
LnUsage == <<100, 97, 116, 97, 58, 32, 123, 34, 117, 115, 97, 103, 101, 77, 101, 116, 97, 100, 97, 116, 97, 34, 58, 123, 34, 112, 114, 111, 109, 112, 116, 84, 111, 107, 101, 110, 67, 111, 117, 110, 116, 34, 58, 49, 44, 34, 99, 97, 110, 100, 105, 100, 97, 116, 101, 115, 84, 111, 107, 101, 110, 67, 111, 117, 110, 116, 34, 58, 49, 44, 34, 116, 111, 116, 97, 108, 84, 111, 107, 101, 110, 67, 111, 117, 110, 116, 34, 58, 51, 125, 125>>

\* data: {"usageMetadata":{"promptTokenCount":-1,"candidatesTokenCount":2147483647}}
LnUsageEdge == <<100, 97, 116, 97, 58, 32, 123, 34, 117, 115, 97, 103, 101, 77, 101, 116, 97, 100, 97, 116, 97, 34, 58, 123, 34, 112, 114, 111, 109, 112, 116, 84, 111, 107, 101, 110, 67, 111, 117, 110, 116, 34, 58, 45, 49, 44, 34, 99, 97, 110, 100, 105, 100, 97, 116, 101, 115, 84, 111, 107, 101, 110, 67, 111, 117, 110, 116, 34, 58, 50, 49, 52, 55, 52, 56, 51, 54, 52, 55, 125, 125>>

\* data: {"candidates":[{"content"
LnTrunc == <<100, 97, 116, 97, 58, 32, 123, 34, 99, 97, 110, 100, 105, 100, 97, 116, 101, 115, 34, 58, 91, 123, 34, 99, 111, 110, 116, 101, 110, 116, 34>>

\* data: [DONE]
LnDone == <<100, 97, 116, 97, 58, 32, 91, 68, 79, 78, 69, 93>>

\* : ping
LnComment == <<58, 32, 112, 105, 110, 103>>

\* Error and reason texts.
S_ReadErr == <<101, 114, 114, 111, 114, 32, 100, 101, 99, 111, 100, 105, 110, 103, 32, 114, 101, 115, 112, 111, 110, 115, 101, 32, 98, 111, 100, 121>>   \* "error decoding response body"
S_SendErr == <<101, 114, 114, 111, 114, 32, 115, 101, 110, 100, 105, 110, 103, 32, 114, 101, 113, 117, 101, 115, 116>>   \* "error sending request"
S_NotFound == <<78, 111, 116, 32, 70, 111, 117, 110, 100>>   \* "Not Found"
S_ServerError == <<73, 110, 116, 101, 114, 110, 97, 108, 32, 83, 101, 114, 118, 101, 114, 32, 69, 114, 114, 111, 114>>   \* "Internal Server Error"
S_Oops == <<111, 111, 112, 115>>   \* "oops"

Script(send_ok, status, body_ok, body, chunks, tail, err) ==
    [send_ok |-> send_ok, status |-> status, body_ok |-> body_ok, body |-> body,
     chunks |-> chunks, tail |-> tail, err |-> err]

NoScript == Script(TRUE, 0, TRUE, <<>>, <<>>, "end", <<>>)

OkScript(chunks, tail) == Script(TRUE, 200, TRUE, <<>>, chunks, tail, S_ReadErr)

Terminated(line) == line \o <<LF>>

\* Event lines that decode, and the lines a stream is built from.
ValidLines == {LnHi, LnAccent, LnTool, LnUsage}

LineCatalogue == {LnHi, LnAccent, LnUsage, LnTrunc, LnDone, LnComment}

\* One valid line, cut into two chunks at each byte offset inside it.
SplitScripts ==
    {OkScript(<<SubSeq(Terminated(l), 1, cut),
                SubSeq(Terminated(l), cut + 1, Len(l) + 1)>>, "end") :
        <<l, cut>> \in {lc \in ValidLines \X (1..120) : lc[2] <= Len(lc[1])}}

\* Up to MaxLines lines, a chunk each, then perhaps an unterminated valid line,
\* then the end of the stream or a read error.
LineScripts ==
    {OkScript([i \in 1..Len(ls) |-> Terminated(ls[i])] \o partial, tail) :
        <<ls, partial, tail>> \in
            (UNION {[1..k -> LineCatalogue] : k \in 0..MaxLines})
                \X {<<>>, <<LnHi>>} \X {"end", "error"}}

\* A refused handshake: a non-success status whose body may itself look like an
\* event stream, or may be unreadable; or a request that never got out.
FailScripts ==
    {Script(TRUE, st, ok, b, <<>>, "end", S_ReadErr) :
        <<st, ok, b>> \in {404, 500} \X BOOLEAN \X {S_Oops, Terminated(LnHi)}}
    \cup {Script(FALSE, 0, TRUE, <<>>, <<>>, "end", S_SendErr)}

\* One line ended by CR LF in one chunk, by CR and LF in two chunks, and by
\* CR CR LF.
CrForms(l) ==
    {OkScript(<<l \o <<CR, LF>>>>, "end"),
     OkScript(<<l \o <<CR>>, <<LF>>>>, "end"),
     OkScript(<<l \o <<CR, CR, LF>>>>, "end")}

CrScripts == UNION {CrForms(l) : l \in ValidLines \cup LineCatalogue}

\* data: {"candidates":[{"content":{"parts":[{"text":""}]}}]}
LnEmpty == <<100, 97, 116, 97, 58, 32, 123, 34, 99, 97, 110, 100, 105, 100, 97, 116, 101, 115, 34, 58, 91, 123, 34, 99, 111, 110, 116, 101, 110, 116, 34, 58, 123, 34, 112, 97, 114, 116, 115, 34, 58, 91, 123, 34, 116, 101, 120, 116, 34, 58, 34, 34, 125, 93, 125, 125, 93, 125>>

\* data: {"usageMetadata":{},"candidates":[{"content":{"parts":[{"text":"a","functionCall":{"name":"f"}}]}}]}
LnMix == <<100, 97, 116, 97, 58, 32, 123, 34, 117, 115, 97, 103, 101, 77, 101, 116, 97, 100, 97, 116, 97, 34, 58, 123, 125, 44, 34, 99, 97, 110, 100, 105, 100, 97, 116, 101, 115, 34, 58, 91, 123, 34, 99, 111, 110, 116, 101, 110, 116, 34, 58, 123, 34, 112, 97, 114, 116, 115, 34, 58, 91, 123, 34, 116, 101, 120, 116, 34, 58, 34, 97, 34, 44, 34, 102, 117, 110, 99, 116, 105, 111, 110, 67, 97, 108, 108, 34, 58, 123, 34, 110, 97, 109, 101, 34, 58, 34, 102, 34, 125, 125, 93, 125, 125, 93, 125>>

\* data: {"usageMetadata":{"promptTokenCount":4294967297}}
LnUsageBig == <<100, 97, 116, 97, 58, 32, 123, 34, 117, 115, 97, 103, 101, 77, 101, 116, 97, 100, 97, 116, 97, 34, 58, 123, 34, 112, 114, 111, 109, 112, 116, 84, 111, 107, 101, 110, 67, 111, 117, 110, 116, 34, 58, 52, 50, 57, 52, 57, 54, 55, 50, 57, 55, 125, 125>>

\* data: {"candidates":[{"content":{"parts":[{"text":"a"}]}},{"content":{"parts":[{"text":"b"}]}}]}
LnTwoCand == <<100, 97, 116, 97, 58, 32, 123, 34, 99, 97, 110, 100, 105, 100, 97, 116, 101, 115, 34, 58, 91, 123, 34, 99, 111, 110, 116, 101, 110, 116, 34, 58, 123, 34, 112, 97, 114, 116, 115, 34, 58, 91, 123, 34, 116, 101, 120, 116, 34, 58, 34, 97, 34, 125, 93, 125, 125, 44, 123, 34, 99, 111, 110, 116, 101, 110, 116, 34, 58, 123, 34, 112, 97, 114, 116, 115, 34, 58, 91, 123, 34, 116, 101, 120, 116, 34, 58, 34, 98, 34, 125, 93, 125, 125, 93, 125>>

\* data: {"candidates":[]}
LnNoCand == <<100, 97, 116, 97, 58, 32, 123, 34, 99, 97, 110, 100, 105, 100, 97, 116, 101, 115, 34, 58, 91, 93, 125>>

\* data: {"candidates":[{"content":{"parts":[{"functionCall":{"name":"f"}},{"text":"a"}]}}]}
LnParts == <<100, 97, 116, 97, 58, 32, 123, 34, 99, 97, 110, 100, 105, 100, 97, 116, 101, 115, 34, 58, 91, 123, 34, 99, 111, 110, 116, 101, 110, 116, 34, 58, 123, 34, 112, 97, 114, 116, 115, 34, 58, 91, 123, 34, 102, 117, 110, 99, 116, 105, 111, 110, 67, 97, 108, 108, 34, 58, 123, 34, 110, 97, 109, 101, 34, 58, 34, 102, 34, 125, 125, 44, 123, 34, 116, 101, 120, 116, 34, 58, 34, 97, 34, 125, 93, 125, 125, 93, 125>>

\* Lines that decode to the edges of what a part, a list of candidates and a usage
\* block may carry, each sent as one chunk of a stream that then ends.
EdgeLines ==
    {LnEmpty, LnMix, LnUsage, LnUsageEdge, LnUsageBig, LnHi, LnTool,
     LnTwoCand, LnNoCand, LnParts}

EdgeScripts == {OkScript(<<Terminated(l)>>, "end") : l \in EdgeLines}

\* A line with a two-byte character, cut into two chunks at each byte offset inside
\* it, the stream ending before any line-feed comes.
UnterminatedScripts ==
    {OkScript(<<SubSeq(LnAccent, 1, cut), SubSeq(LnAccent, cut + 1, Len(LnAccent))>>, "end") :
        cut \in 1..(Len(LnAccent) - 1)}

DecScripts == SplitScripts \cup LineScripts \cup FailScripts \cup CrScripts \cup EdgeScripts
                  \cup UnterminatedScripts

\* What the requests of the whole program meet.
SysScripts ==
    {OkScript(<<Terminated(LnHi) \o Terminated(LnTool) \o Terminated(LnUsage)>>, "end"),
     OkScript(<<Terminated(LnUsageEdge)>>, "error"),
     Script(TRUE, 500, TRUE, S_Oops, <<>>, "end", S_ReadErr)}

(***************************************************************************)
(* State.                                                                  *)
(***************************************************************************)
VARIABLES
    messages,               \* App.messages: records [role, content]; turn is a ghost tag
    should_quit,            \* App.should_quit
    is_loading,             \* App.is_loading
    spinner_index,          \* App.spinner_index
    input_mode,             \* App.input_mode
    textarea,               \* the text of App.textarea
    total_prompt_tokens,    \* App.total_prompt_tokens (i32)
    total_response_tokens,  \* App.total_response_tokens (i32)
    panicked,               \* an arithmetic overflow panicked the main task
    rx,                     \* the action channel of run
    keys_sent,              \* key presses the key task has sent
    ticks_sent,             \* ticks the tick task has sent
    has_key,                \* GEMINI_API_KEY is set
    nturns,                 \* messages sent so far
    input,                  \* per turn: the text of SendMessage
    fwd_pc,                 \* per turn: the forwarding task of Action::SendMessage
    dec_pc,                 \* per turn: the stream_response task
    ai_rx,                  \* per turn: the AiUpdate channel
    buffer,                 \* per turn: stream_gemini's buffer
    script,                 \* per turn: what the network does for the request
    pos,                    \* per turn: chunks read so far
    requests,               \* per turn: requests sent (ghost)
    emitted,                \* per turn: every AiUpdate sent, in order (ghost)
    processed,              \* per turn: the turn's actions App::update has handled (ghost)
    dropped,                \* per turn: updates the forwarding loop took and matched no arm (ghost)
    rendered,               \* the calls of parse_markdown made: records [text, lines]
    files,                  \* the file system tools.rs works on: path -> content
    results                 \* the calls of execute_tool made: records [name, args, result, ..]

appVars == <<messages, should_quit, is_loading, spinner_index, input_mode, textarea,
             total_prompt_tokens, total_response_tokens, panicked>>

envVars == <<keys_sent, ticks_sent, has_key, nturns, input>>

decVars == <<dec_pc, ai_rx, buffer, script, pos, requests, emitted>>

ghostVars == <<processed, dropped>>

libVars == <<rendered, files, results>>

vars == <<appVars, rx, envVars, fwd_pc, decVars, ghostVars, libVars>>

Msg(role, content, turn) == [role |-> role, content |-> content, turn |-> turn]

\* App::new, and run before its loop.
Init ==
    /\ messages = <<Msg("System", S_Welcome, 0), Msg("System", S_SetEnv, 0)>>
    /\ should_quit = FALSE
    /\ is_loading = FALSE
    /\ spinner_index = 0
    /\ input_mode = "Editing"
    /\ textarea = <<>>
    /\ total_prompt_tokens = 0
    /\ total_response_tokens = 0
    /\ panicked = FALSE
    /\ rx = <<>>
    /\ keys_sent = 0
    /\ ticks_sent = 0
    /\ has_key \in BOOLEAN
    /\ nturns = 0
    /\ input = [t \in Turns |-> <<>>]
    /\ fwd_pc = [t \in Turns |-> "idle"]
    /\ dec_pc = [t \in Turns |-> "idle"]
    /\ ai_rx = [t \in Turns |-> <<>>]
    /\ buffer = [t \in Turns |-> <<>>]
    /\ script = [t \in Turns |-> NoScript]
    /\ pos = [t \in Turns |-> 0]
    /\ requests = [t \in Turns |-> 0]
    /\ emitted = [t \in Turns |-> <<>>]
    /\ processed = [t \in Turns |-> <<>>]
    /\ dropped = [t \in Turns |-> <<>>]
    /\ rendered = <<>>
    /\ files = {}
    /\ results = <<>>

\* run's loop ends on should_quit; a panic of the main task ends the process.
Running == ~should_quit /\ ~panicked

(***************************************************************************)
(* ai::stream_response, one task per turn.  tx.send appends to the turn's  *)
(* channel; a step runs from one await to the next.                        *)
(***************************************************************************)
Send(t, events) ==
    /\ ai_rx' = [ai_rx EXCEPT ![t] = @ \o events]
    /\ emitted' = [emitted EXCEPT ![t] = @ \o events]

IsSuccess(status) == status >= 200 /\ status <= 299

\* StatusCode's Display: the code and its canonical reason.
StatusText(status) ==
    LET Digits3(n) == <<48 + (n \div 100), 48 + ((n \div 10) % 10), 48 + (n % 10)>>
    IN Digits3(status) \o <<32>> \o
           (CASE status = 404 -> S_NotFound
              [] status = 500 -> S_ServerError)

\* resp.text().await.unwrap_or_else(|_| "Could not read error body")
ErrorBody(sc) == IF sc.body_ok THEN from_utf8_lossy(sc.body) ELSE S_NoBody

\* A response whose body is decoded as an event stream whatever its status.
StatusFailStreams(sc) ==
    Ingest(<<>>, sc.body).events
        \o <<Error(S_Error \o S_ApiError \o StatusText(sc.status) \o S_ColonSpace
                       \o ErrorBody(sc))>>

\* What stream_response sends when the status is not a success: the Err of
\* stream_gemini, formatted.
StatusFailEvents(sc) ==
    <<Error(S_Error \o S_ApiError \o StatusText(sc.status) \o S_ColonSpace \o ErrorBody(sc))>>

\* A read failure that first decodes what is left in the buffer.
TransportFailFlushes(buf, e) == LineEvents(buf) \o <<Error(S_Error \o e)>>

\* What stream_response sends when the request or a read fails with error text e;
\* buf is the buffer at that moment.
TransportFailEvents(buf, e) == <<Error(S_Error \o e)>>

\* client.post(url).json(&body).send().await?, then the status check.
Handshake(t, sc) ==
    /\ Running
    /\ dec_pc[t] = "start"
    /\ has_key
    /\ script' = [script EXCEPT ![t] = sc]
    /\ requests' = [requests EXCEPT ![t] = @ + 1]
    /\ IF ~sc.send_ok
       THEN /\ Send(t, TransportFailEvents(<<>>, sc.err) \o <<Finished>>)
            /\ dec_pc' = [dec_pc EXCEPT ![t] = "done"]
       ELSE IF ~IsSuccess(sc.status)
       THEN /\ Send(t, StatusFailEvents(sc) \o <<Finished>>)
            /\ dec_pc' = [dec_pc EXCEPT ![t] = "done"]
       ELSE /\ dec_pc' = [dec_pc EXCEPT ![t] = "stream"]
            /\ UNCHANGED <<ai_rx, emitted>>
    /\ UNCHANGED <<appVars, rx, envVars, fwd_pc, buffer, pos, ghostVars, libVars>>

\* stream.next() gives Some(Ok(chunk)).
RecvChunk(t) ==
    LET Ingested(r) ==
            /\ buffer' = [buffer EXCEPT ![t] = r.buffer]
            /\ Send(t, r.events)
    IN
    /\ Running
    /\ dec_pc[t] = "stream"
    /\ pos[t] < Len(script[t].chunks)
    /\ Ingested(Ingest(buffer[t], script[t].chunks[pos[t] + 1]))
    /\ pos' = [pos EXCEPT ![t] = @ + 1]
    /\ UNCHANGED <<appVars, rx, envVars, fwd_pc, dec_pc, script, requests, ghostVars, libVars>>

\* stream.next() gives Some(Err(e)): `item?` leaves stream_gemini.
RecvError(t) ==
    /\ Running
    /\ dec_pc[t] = "stream"
    /\ pos[t] = Len(script[t].chunks)
    /\ script[t].tail = "error"
    /\ Send(t, TransportFailEvents(buffer[t], script[t].err) \o <<Finished>>)
    /\ dec_pc' = [dec_pc EXCEPT ![t] = "done"]
    /\ UNCHANGED <<appVars, rx, envVars, fwd_pc, buffer, script, pos, requests, ghostVars, libVars>>

\* An end of stream that first decodes what is left in the buffer.
RecvEndFlushes(t) ==
    /\ Running
    /\ dec_pc[t] = "stream"
    /\ pos[t] = Len(script[t].chunks)
    /\ script[t].tail = "end"
    /\ Send(t, LineEvents(buffer[t]) \o <<Finished>>)
    /\ dec_pc' = [dec_pc EXCEPT ![t] = "done"]
    /\ UNCHANGED <<appVars, rx, envVars, fwd_pc, buffer, script, pos, requests, ghostVars, libVars>>

\* stream.next() gives None: Ok(()).
RecvEnd(t) ==
    /\ Running
    /\ dec_pc[t] = "stream"
    /\ pos[t] = Len(script[t].chunks)
    /\ script[t].tail = "end"
    /\ Send(t, <<Finished>>)
    /\ dec_pc' = [dec_pc EXCEPT ![t] = "done"]
    /\ UNCHANGED <<appVars, rx, envVars, fwd_pc, buffer, script, pos, requests, ghostVars, libVars>>

\* The offline path: three sleeps, a Content after each, then Usage and Finished.
Mock1(t) ==
    /\ Running
    /\ dec_pc[t] = "start"
    /\ ~has_key
    /\ Send(t, <<Content(S_MockPrefix)>>)
    /\ dec_pc' = [dec_pc EXCEPT ![t] = "mock2"]
    /\ UNCHANGED <<appVars, rx, envVars, fwd_pc, buffer, script, pos, requests, ghostVars, libVars>>

Mock2(t) ==
    /\ Running
    /\ dec_pc[t] = "mock2"
    /\ Send(t, <<Content(S_IReceived \o input[t] \o S_QuoteDotLf)>>)
    /\ dec_pc' = [dec_pc EXCEPT ![t] = "mock3"]
    /\ UNCHANGED <<appVars, rx, envVars, fwd_pc, buffer, script, pos, requests, ghostVars, libVars>>

\* The last step of the offline path with no usage report.
Mock3NoUsage(t) ==
    /\ Running
    /\ dec_pc[t] = "mock3"
    /\ Send(t, <<Content(S_SetKey), Finished>>)
    /\ dec_pc' = [dec_pc EXCEPT ![t] = "done"]
    /\ UNCHANGED <<appVars, rx, envVars, fwd_pc, buffer, script, pos, requests, ghostVars, libVars>>

Mock3(t) ==
    /\ Running
    /\ dec_pc[t] = "mock3"
    /\ Send(t, <<Content(S_SetKey), Usage(10, 20, 30), Finished>>)
    /\ dec_pc' = [dec_pc EXCEPT ![t] = "done"]
    /\ UNCHANGED <<appVars, rx, envVars, fwd_pc, buffer, script, pos, requests, ghostVars, libVars>>

(***************************************************************************)
(* main::Action, and the channel every task sends its actions on.  turn is *)
(* a ghost tag: the turn an action belongs to, 0 for keys and ticks.       *)
(***************************************************************************)
Tick == [type |-> "Tick", turn |-> 0]

UserInput(key) == [type |-> "UserInput", key |-> key, turn |-> 0]

SendMessage(text, t) == [type |-> "SendMessage", text |-> text, turn |-> t]

AiResponseStart(t) == [type |-> "AiResponseStart", turn |-> t]

AiResponseChunk(s, t) == [type |-> "AiResponseChunk", text |-> s, turn |-> t]

UpdateUsage(usage, t) == [type |-> "UpdateUsage", usage |-> usage, turn |-> t]

AiResponseError(e, t) == [type |-> "AiResponseError", msg |-> e, turn |-> t]

AiResponseFinish(t) == [type |-> "AiResponseFinish", turn |-> t]

\* A send at the front of the queue instead of its back.
SendActionFront(q, a) == <<a>> \o q

\* UnboundedSender::send on the action channel: the queue is first in, first out.
SendAction(q, a) == Append(q, a)

\* crossterm's KeyCode, for the keys the handler tells apart.
Esc == [code |-> "Esc"]

Enter == [code |-> "Enter"]

Char(c) == [code |-> "Char", c |-> c]

\* The keys pressed: Esc, Enter, 'a' and 'c'.
Keys == {Esc, Enter, Char(97), Char(99)}

\* str::trim: the text without its leading and trailing white space.
trim(s) ==
    LET IsSpace(c) == c \in {9, 10, 11, 12, 13, 32}
        RECURSIVE TrimStart(_)
        TrimStart(x) == IF x # <<>> /\ IsSpace(Head(x)) THEN TrimStart(Tail(x)) ELSE x
        RECURSIVE TrimEnd(_)
        TrimEnd(x) ==
            IF x # <<>> /\ IsSpace(x[Len(x)]) THEN TrimEnd(SubSeq(x, 1, Len(x) - 1)) ELSE x
    IN TrimEnd(TrimStart(s))

\* i32 addition: whether it overflows, and its two's complement result.
Overflows(a, b) == (b > 0 /\ a > MaxI32 - b) \/ (b < 0 /\ a < MinI32 - b)

wrapping_add(a, b) ==
    IF b > 0 /\ a > MaxI32 - b THEN (a + MinI32) + (b + MinI32)
    ELSE IF b < 0 /\ a < MinI32 - b THEN (a - MinI32) + (b - MinI32)
    ELSE a + b

\* The sidebar's "Total:" line.
DisplayedTotal == wrapping_add(total_prompt_tokens, total_response_tokens)

(***************************************************************************)
(* The tick task and the key task of run.                                  *)
(***************************************************************************)
\* A tick task that advances the spinner itself instead of leaving it to the loop.
TickTaskSpins ==
    /\ Running
    /\ ticks_sent < MaxTicks
    /\ Len(rx) < MaxPending
    /\ rx' = SendAction(rx, Tick)
    /\ ticks_sent' = ticks_sent + 1
    /\ spinner_index' = (spinner_index + 1) % SpinnerFrames
    /\ UNCHANGED <<messages, should_quit, is_loading, input_mode, textarea,
                   total_prompt_tokens, total_response_tokens, panicked>>
    /\ UNCHANGED <<keys_sent, has_key, nturns, input, fwd_pc, decVars, ghostVars, libVars>>

TickTask ==
    /\ Running
    /\ ticks_sent < MaxTicks
    /\ Len(rx) < MaxPending
    /\ rx' = SendAction(rx, Tick)
    /\ ticks_sent' = ticks_sent + 1
    /\ UNCHANGED <<appVars, keys_sent, has_key, nturns, input, fwd_pc, decVars, ghostVars, libVars>>

KeyTask(key) ==
    /\ Running
    /\ keys_sent < MaxKeys
    /\ Len(rx) < MaxPending
    /\ key = Enter =>
           nturns + Len(SelectSeq(rx, LAMBDA a : a.type = "UserInput" /\ a.key = Enter))
               < MaxTurns
    /\ rx' = SendAction(rx, UserInput(key))
    /\ keys_sent' = keys_sent + 1
    /\ UNCHANGED <<appVars, ticks_sent, has_key, nturns, input, fwd_pc, decVars, ghostVars, libVars>>

(***************************************************************************)
(* The task Action::SendMessage spawns: it makes the turn's channel,       *)
(* spawns stream_response, sends AiResponseStart, then forwards each       *)
(* update as an action until Finished.                                     *)
(***************************************************************************)
FwdStart(t) ==
    /\ Running
    /\ fwd_pc[t] = "start"
    /\ fwd_pc' = [fwd_pc EXCEPT ![t] = "loop"]
    /\ dec_pc' = [dec_pc EXCEPT ![t] = "start"]
    /\ rx' = SendAction(rx, AiResponseStart(t))
    /\ UNCHANGED <<appVars, envVars, ai_rx, buffer, script, pos, requests, emitted,
                   ghostVars, libVars>>

\* The arms of `match update`: the actions an update is forwarded as.  There is
\* no arm for AiUpdate::ToolCall.
Forwarded(update, t) ==
    CASE update.type = "Content" -> <<AiResponseChunk(update.text, t)>>
      [] update.type = "Usage" -> <<UpdateUsage(update, t)>>
      [] update.type = "Error" -> <<AiResponseError(update.msg, t)>>
      [] update.type = "Finished" -> <<AiResponseFinish(t)>>
      [] OTHER -> <<>>

\* while let Some(update) = ai_rx.recv().await { match update { ... } }
FwdRecv(t) ==
    LET Forward(update, actions) ==
            /\ rx' = IF actions = <<>> THEN rx ELSE SendAction(rx, actions[1])
            /\ dropped' = [dropped EXCEPT
                               ![t] = IF actions = <<>> THEN Append(@, update) ELSE @]
            /\ fwd_pc' = [fwd_pc EXCEPT
                              ![t] = IF update.type = "Finished" THEN "done" ELSE @]
    IN
    /\ Running
    /\ fwd_pc[t] = "loop"
    /\ ai_rx[t] # <<>>
    /\ ai_rx' = [ai_rx EXCEPT ![t] = Tail(@)]
    /\ Forward(Head(ai_rx[t]), Forwarded(Head(ai_rx[t]), t))
    /\ UNCHANGED <<appVars, envVars, dec_pc, buffer, script, pos, requests, emitted,
                   processed, libVars>>

(***************************************************************************)
(* App::update, one action per arm, on the action run's loop received.     *)
(***************************************************************************)
Recv(type) == Running /\ rx # <<>> /\ Head(rx).type = type

Handled(a) ==
    /\ processed' = [processed EXCEPT ![a.turn] = Append(@, a)]
    /\ UNCHANGED libVars

OnTick ==
    /\ Recv("Tick")
    /\ rx' = Tail(rx)
    /\ spinner_index' = IF is_loading THEN (spinner_index + 1) % SpinnerFrames
                        ELSE spinner_index
    /\ UNCHANGED <<messages, should_quit, is_loading, input_mode, textarea,
                   total_prompt_tokens, total_response_tokens, panicked,
                   envVars, fwd_pc, decVars, ghostVars, libVars>>

\* InputMode::Editing
EditingKey(key) ==
    IF key = Esc
    THEN /\ input_mode' = "Normal"
         /\ rx' = Tail(rx)
         /\ UNCHANGED <<messages, textarea, nturns, should_quit>>
    ELSE IF key = Enter
    THEN IF trim(textarea) # <<>>
         THEN /\ messages' = Append(messages, Msg("You", textarea, nturns + 1))
              /\ rx' = SendAction(Tail(rx), SendMessage(textarea, nturns + 1))
              /\ nturns' = nturns + 1
              /\ textarea' = <<>>
              /\ UNCHANGED <<input_mode, should_quit>>
         ELSE /\ rx' = Tail(rx)
              /\ UNCHANGED <<messages, textarea, nturns, input_mode, should_quit>>
    ELSE /\ textarea' = Append(textarea, key.c)
         /\ rx' = Tail(rx)
         /\ UNCHANGED <<messages, nturns, input_mode, should_quit>>

\* InputMode::Normal.  The scroll keys move the view only.
NormalKey(key) ==
    /\ rx' = Tail(rx)
    /\ should_quit' = (should_quit \/ key = Char(113))
    /\ input_mode' = IF key = Char(105) THEN "Editing" ELSE input_mode
    /\ messages' = IF key = Char(99) THEN <<>> ELSE messages
    /\ UNCHANGED <<textarea, nturns>>

OnUserInput ==
    /\ Recv("UserInput")
    /\ IF input_mode = "Editing" THEN EditingKey(Head(rx).key) ELSE NormalKey(Head(rx).key)
    /\ UNCHANGED <<is_loading, spinner_index, total_prompt_tokens, total_response_tokens,
                   panicked, keys_sent, ticks_sent, has_key, input, fwd_pc, decVars,
                   ghostVars, libVars>>

OnSendMessage ==
    /\ Recv("SendMessage")
    /\ rx' = Tail(rx)
    /\ is_loading' = TRUE
    /\ spinner_index' = 0
    /\ fwd_pc' = [fwd_pc EXCEPT ![Head(rx).turn] = "start"]
    /\ input' = [input EXCEPT ![Head(rx).turn] = Head(rx).text]
    /\ UNCHANGED <<messages, should_quit, input_mode, textarea, total_prompt_tokens,
                   total_response_tokens, panicked, keys_sent, ticks_sent, has_key,
                   nturns, decVars, ghostVars, libVars>>

OnAiResponseStart ==
    /\ Recv("AiResponseStart")
    /\ rx' = Tail(rx)
    /\ messages' = Append(messages, Msg("AI", <<>>, Head(rx).turn))
    /\ Handled(Head(rx))
    /\ UNCHANGED <<should_quit, is_loading, spinner_index, input_mode, textarea,
                   total_prompt_tokens, total_response_tokens, panicked,
                   envVars, fwd_pc, decVars, dropped>>

\* if let Some(last_msg) = self.messages.last_mut() { if last_msg.role == "AI" { push_str } }
PushChunk(msgs, chunk) ==
    IF msgs # <<>> /\ msgs[Len(msgs)].role = "AI"
    THEN [msgs EXCEPT ![Len(msgs)].content = @ \o chunk]
    ELSE msgs

OnAiResponseChunk ==
    /\ Recv("AiResponseChunk")
    /\ rx' = Tail(rx)
    /\ messages' = PushChunk(messages, Head(rx).text)
    /\ Handled(Head(rx))
    /\ UNCHANGED <<should_quit, is_loading, spinner_index, input_mode, textarea,
                   total_prompt_tokens, total_response_tokens, panicked,
                   envVars, fwd_pc, decVars, dropped>>

\* The two `+=` and the sum the next draw shows, where none overflows, and in a
\* build without overflow checks.
AddUsage(usage) ==
    /\ total_prompt_tokens' = wrapping_add(total_prompt_tokens, usage.prompt_tokens)
    /\ total_response_tokens' = wrapping_add(total_response_tokens, usage.response_tokens)
    /\ UNCHANGED panicked

\* In a build with overflow checks the first sum that overflows panics.
PanicUsage(usage) ==
    LET prompt_overflows == Overflows(total_prompt_tokens, usage.prompt_tokens)
        response_overflows == Overflows(total_response_tokens, usage.response_tokens)
        total_overflows ==
            Overflows(wrapping_add(total_prompt_tokens, usage.prompt_tokens),
                      wrapping_add(total_response_tokens, usage.response_tokens))
    IN
    /\ prompt_overflows \/ response_overflows \/ total_overflows
    /\ panicked' = TRUE
    /\ total_prompt_tokens' =
           IF prompt_overflows THEN total_prompt_tokens
           ELSE total_prompt_tokens + usage.prompt_tokens
    /\ total_response_tokens' =
           IF prompt_overflows \/ response_overflows THEN total_response_tokens
           ELSE total_response_tokens + usage.response_tokens

OnUpdateUsage ==
    /\ Recv("UpdateUsage")
    /\ rx' = Tail(rx)
    /\ AddUsage(Head(rx).usage) \/ PanicUsage(Head(rx).usage)
    /\ Handled(Head(rx))
    /\ UNCHANGED <<messages, should_quit, is_loading, spinner_index, input_mode, textarea,
                   envVars, fwd_pc, decVars, dropped>>

OnAiResponseError ==
    /\ Recv("AiResponseError")
    /\ rx' = Tail(rx)
    /\ messages' = Append(messages, Msg("Error", Head(rx).msg, Head(rx).turn))
    /\ is_loading' = FALSE
    /\ Handled(Head(rx))
    /\ UNCHANGED <<should_quit, spinner_index, input_mode, textarea,
                   total_prompt_tokens, total_response_tokens, panicked,
                   envVars, fwd_pc, decVars, dropped>>

OnAiResponseFinish ==
    /\ Recv("AiResponseFinish")
    /\ rx' = Tail(rx)
    /\ is_loading' = FALSE
    /\ Handled(Head(rx))
    /\ UNCHANGED <<messages, should_quit, spinner_index, input_mode, textarea,
                   total_prompt_tokens, total_response_tokens, panicked,
                   envVars, fwd_pc, decVars, dropped>>

(***************************************************************************)
(* The whole program.                                                      *)
(***************************************************************************)
Next ==
    \/ TickTask
    \/ \E key \in Keys : KeyTask(key)
    \/ OnTick
    \/ OnUserInput
    \/ OnSendMessage
    \/ OnAiResponseStart
    \/ OnAiResponseChunk
    \/ OnUpdateUsage
    \/ OnAiResponseError
    \/ OnAiResponseFinish
    \/ \E t \in Turns : FwdStart(t)
    \/ \E t \in Turns : FwdRecv(t)
    \/ \E t \in Turns : \E sc \in SysScripts : Handshake(t, sc)
    \/ \E t \in Turns : RecvChunk(t)
    \/ \E t \in Turns : RecvError(t)
    \/ \E t \in Turns : RecvEnd(t)
    \/ \E t \in Turns : Mock1(t)
    \/ \E t \in Turns : Mock2(t)
    \/ \E t \in Turns : Mock3(t)

Spec == Init /\ [][Next]_vars

(***************************************************************************)
(* The program under the scheduling of the tokio runtime: a task that can  *)
(* take a step is given one, so run's loop handles the action at the head  *)
(* of its queue, a forwarding task forwards the update at the head of its  *)
(* channel, and a decoder task goes on once what it awaits (the response,  *)
(* the next item of the stream, the end of a sleep) has come.  The key and *)
(* tick tasks wait for the terminal and the clock: nothing says they go    *)
(* on.  The runs start where the first turn is over, its reply shown, and  *)
(* the next message is typed, a key away from being sent or not.           *)
(***************************************************************************)
LiveInit ==
    LET FirstReply ==
            OkScript(<<Terminated(LnHi) \o Terminated(LnTool) \o Terminated(LnUsage)>>, "end")
        Sent(key) ==
            IF key
            THEN <<Content(<<104, 105>>),
                   ToolCall(<<114, 117, 110, 95, 99, 111, 109, 109, 97, 110, 100>>,
                            <<123, 34, 99, 111, 109, 109, 97, 110, 100, 34, 58, 34, 108, 115,
                              34, 125>>),
                   Usage(1, 1, 3), Finished>>
            ELSE <<Content(S_MockPrefix), Content(S_IReceived \o <<97>> \o S_QuoteDotLf),
                   Content(S_SetKey), Usage(10, 20, 30), Finished>>
        Reply(key) ==
            IF key THEN <<104, 105>>
            ELSE S_MockPrefix \o S_IReceived \o <<97>> \o S_QuoteDotLf \o S_SetKey
    IN
    /\ has_key \in BOOLEAN
    /\ messages = <<Msg("System", S_Welcome, 0), Msg("System", S_SetEnv, 0),
                    Msg("You", <<97>>, 1), Msg("AI", Reply(has_key), 1)>>
    /\ should_quit = FALSE
    /\ is_loading = FALSE
    /\ spinner_index = 0
    /\ input_mode = "Editing"
    /\ textarea = <<97>>
    /\ total_prompt_tokens = IF has_key THEN 1 ELSE 10
    /\ total_response_tokens = IF has_key THEN 1 ELSE 20
    /\ panicked = FALSE
    /\ rx = <<>>
    /\ keys_sent = MaxKeys - 1
    /\ ticks_sent = 0
    /\ nturns = 1
    /\ input = [t \in Turns |-> IF t = 1 THEN <<97>> ELSE <<>>]
    /\ fwd_pc = [t \in Turns |-> IF t = 1 THEN "done" ELSE "idle"]
    /\ dec_pc = [t \in Turns |-> IF t = 1 THEN "done" ELSE "idle"]
    /\ ai_rx = [t \in Turns |-> <<>>]
    /\ buffer = [t \in Turns |-> <<>>]
    /\ script = [t \in Turns |-> IF t = 1 /\ has_key THEN FirstReply ELSE NoScript]
    /\ pos = [t \in Turns |-> IF t = 1 /\ has_key THEN 1 ELSE 0]
    /\ requests = [t \in Turns |-> IF t = 1 /\ has_key THEN 1 ELSE 0]
    /\ emitted = [t \in Turns |-> IF t = 1 THEN Sent(has_key) ELSE <<>>]
    /\ processed =
           [t \in Turns |->
                IF t = 1
                THEN <<AiResponseStart(1)>>
                         \o Flatten([i \in 1..Len(Sent(has_key)) |->
                                         Forwarded(Sent(has_key)[i], 1)])
                ELSE <<>>]
    /\ dropped = [t \in Turns |->
                      IF t = 1
                      THEN SelectSeq(Sent(has_key), LAMBDA u : Forwarded(u, 1) = <<>>)
                      ELSE <<>>]
    /\ rendered = <<>>
    /\ files = {}
    /\ results = <<>>

\* The fairness of the step that takes the next item of the stream is written
\* out, WF_vars(RecvChunk(t)) with ENABLED replaced by the step's guard: the step
\* is enabled exactly where an item of the stream is due.
ItemDue(t) == Running /\ dec_pc[t] = "stream" /\ pos[t] < Len(script[t].chunks)

LiveSpec ==
    /\ LiveInit
    /\ [][Next]_vars
    /\ WF_vars(OnTick \/ OnUserInput \/ OnSendMessage \/ OnAiResponseStart
                  \/ OnAiResponseChunk \/ OnUpdateUsage \/ OnAiResponseError
                  \/ OnAiResponseFinish)
    /\ \A t \in Turns :
           /\ WF_vars(FwdStart(t))
           /\ WF_vars(FwdRecv(t))
           /\ WF_vars((\E sc \in SysScripts : Handshake(t, sc))
                         \/ RecvError(t) \/ RecvEnd(t)
                         \/ Mock1(t) \/ Mock2(t) \/ Mock3(t))
           /\ ([]<>(~ItemDue(t)) \/ []<><<RecvChunk(t)>>_vars)

(***************************************************************************)
(* One turn's stream_response task on its own: the state in which the      *)
(* first message was sent and its forwarding task has started, and the     *)
(* steps of stream_response over every script of DecScripts.               *)
(***************************************************************************)
DecInit ==
    /\ messages = <<Msg("System", S_Welcome, 0), Msg("System", S_SetEnv, 0),
                    Msg("You", <<97>>, 1)>>
    /\ should_quit = FALSE
    /\ is_loading = TRUE
    /\ spinner_index = 0
    /\ input_mode = "Editing"
    /\ textarea = <<>>
    /\ total_prompt_tokens = 0
    /\ total_response_tokens = 0
    /\ panicked = FALSE
    /\ rx = <<AiResponseStart(1)>>
    /\ keys_sent = 2
    /\ ticks_sent = 0
    /\ has_key \in BOOLEAN
    /\ nturns = 1
    /\ input = [t \in Turns |-> IF t = 1 THEN <<97>> ELSE <<>>]
    /\ fwd_pc = [t \in Turns |-> IF t = 1 THEN "loop" ELSE "idle"]
    /\ dec_pc = [t \in Turns |-> IF t = 1 THEN "start" ELSE "idle"]
    /\ ai_rx = [t \in Turns |-> <<>>]
    /\ buffer = [t \in Turns |-> <<>>]
    /\ script = [t \in Turns |-> NoScript]
    /\ pos = [t \in Turns |-> 0]
    /\ requests = [t \in Turns |-> 0]
    /\ emitted = [t \in Turns |-> <<>>]
    /\ processed = [t \in Turns |-> <<>>]
    /\ dropped = [t \in Turns |-> <<>>]
    /\ rendered = <<>>
    /\ files = {}
    /\ results = <<>>

DecNext ==
    \/ \E sc \in DecScripts : Handshake(1, sc)
    \/ RecvChunk(1)
    \/ RecvError(1)
    \/ RecvEnd(1)
    \/ Mock1(1)
    \/ Mock2(1)
    \/ Mock3(1)

DecSpec == DecInit /\ [][DecNext]_vars

(***************************************************************************)
(* The renderer: parse_markdown and parse_inline_styles.  Text is a        *)
(* sequence of code points; a Span is a record [content, fg, bold], a Line *)
(* a sequence of Spans.                                                    *)
(***************************************************************************)
Fence == <<96, 96, 96>>

Span(content, fg, bold) == [content |-> content, fg |-> fg, bold |-> bold]

\* str::lines: the text cut at each line-feed, a carriage-return before it removed;
\* nothing follows a final line-feed.
RECURSIVE lines(_)
lines(text) ==
    LET At(p) ==
            IF p = 0 THEN <<text>>
            ELSE <<TrimCr(SubSeq(text, 1, p - 1))>> \o lines(Drop(text, p))
    IN IF text = <<>> THEN <<>> ELSE At(Find(text, LF))

\* syntect's HighlightLines::highlight_line for one line of a block: the ranges
\* cut the line where the scope changes and carry the theme's style for the
\* scope; in_string is the state the highlighter keeps from line to line.  The
\* Python syntax tells names, numbers, strings and the rest apart; names and
\* the rest have the theme's plain foreground.  Plain text is one range.
highlight_line(syntax, in_string, code_line) ==
    LET Scope(c, q) ==
            IF q \/ c = 34 THEN "string"
            ELSE IF c \in 48..57 THEN "number"
            ELSE IF c \in 97..122 THEN "name"
            ELSE "punct"
        Foreground(scope) ==
            CASE scope = "string" -> "green"
              [] scope = "number" -> "orange"
              [] OTHER -> "text"
        Range(scope, content) ==
            [style |-> [foreground |-> Foreground(scope), scope |-> scope],
             content |-> content]
        Extend(ranges, scope, c) ==
            IF ranges # <<>> /\ ranges[Len(ranges)].style.scope = scope
            THEN [ranges EXCEPT ![Len(ranges)].content = Append(@, c)]
            ELSE Append(ranges, Range(scope, <<c>>))
        RECURSIVE Scan(_, _, _)
        Scan(i, q, ranges) ==
            IF i > Len(code_line) THEN [in_string |-> q, ranges |-> ranges]
            ELSE Scan(i + 1,
                      IF code_line[i] = 34 THEN ~q ELSE q,
                      Extend(ranges, Scope(code_line[i], q), code_line[i]))
    IN IF syntax = "Python" THEN Scan(1, in_string, <<>>)
       ELSE [in_string |-> FALSE,
             ranges |-> IF code_line = <<>> THEN <<>>
                        ELSE <<Range("plain", code_line)>>]

\* Style::default().fg(Color::Rgb(style.foreground..)): the foreground alone.
translate_style(style) == style.foreground

\* A block highlighted as a single line.
HighlightWhole(current_lang, code_block_content) ==
    <<<<Span(code_block_content, "text", FALSE)>>>>

\* The highlighting of a block, as both places of parse_markdown do it:
\* find the syntax of the language tag, a new HighlightLines, then one Line per
\* line of LinesWithEndings (each keeps its line-feed), a Span per range.
HighlightBlock(current_lang, code_block_content) ==
    LET syntax == IF current_lang = <<112, 121>> THEN "Python" ELSE "Plain Text"
        RECURSIVE LinesWithEndings(_)
        LinesWithEndings(s) ==
            IF s = <<>> THEN <<>>
            ELSE IF Find(s, LF) = 0 THEN <<s>>
            ELSE <<SubSeq(s, 1, Find(s, LF))>> \o LinesWithEndings(Drop(s, Find(s, LF)))
        Spans(ranges) ==
            [i \in 1..Len(ranges) |->
                 Span(ranges[i].content, translate_style(ranges[i].style), FALSE)]
        RECURSIVE Each(_, _, _)
        Each(code_lines, in_string, acc) ==
            IF code_lines = <<>> THEN acc
            ELSE LET Next_(h) == Each(Tail(code_lines), h.in_string,
                                      Append(acc, Spans(h.ranges)))
                 IN Next_(highlight_line(syntax, in_string, Head(code_lines)))
    IN Each(LinesWithEndings(code_block_content), FALSE, <<>>)

\* A line passed on as one plain span, its markers kept.
InlinePlain(line) == IF line = <<>> THEN <<>> ELSE <<Span(line, "none", FALSE)>>

\* parse_inline_styles: "**" toggles bold and is left out; the text between two
\* toggles is one span, an empty one is not pushed.
parse_inline_styles(line) ==
    LET Push(spans, current_text, is_bold) ==
            IF current_text = <<>> THEN spans
            ELSE Append(spans, Span(current_text, "none", is_bold))
        RECURSIVE Chars(_, _, _, _)
        Chars(i, spans, current_text, is_bold) ==
            IF i > Len(line) THEN Push(spans, current_text, is_bold)
            ELSE IF line[i] = 42 /\ i < Len(line) /\ line[i + 1] = 42
            THEN Chars(i + 2, Push(spans, current_text, is_bold), <<>>, ~is_bold)
            ELSE Chars(i + 1, spans, Append(current_text, line[i]), is_bold)
    IN Chars(1, <<>>, <<>>, FALSE)

\* A fence only where the trimmed line is the three backticks and nothing more.
BareFenceLine(line) == trim(line) = Fence

\* line.trim().starts_with("```")
FenceLine(line) == StartsWith(trim(line), Fence)

\* The locals of parse_markdown after `for line in text.lines()`; they start
\* afresh in each call.
ForLines(text) ==
    LET RECURSIVE trim_start_matches(_)
        trim_start_matches(s) ==
            IF StartsWith(s, Fence) THEN trim_start_matches(Drop(s, 3)) ELSE s
        DarkGray(content) == <<Span(content, "DarkGray", FALSE)>>
        Step(st, line) ==
            IF FenceLine(line)
            THEN IF st.in_code_block
                 THEN [st EXCEPT
                          !.in_code_block = FALSE,
                          !.lines = @ \o HighlightBlock(st.current_lang,
                                                        st.code_block_content)
                                      \o <<DarkGray(Fence)>>,
                          !.code_block_content = <<>>]
                 ELSE [st EXCEPT
                          !.in_code_block = TRUE,
                          !.current_lang = trim_start_matches(trim(line)),
                          !.lines = Append(@, DarkGray(line))]
            ELSE IF st.in_code_block
            THEN [st EXCEPT !.code_block_content = @ \o line \o <<LF>>]
            ELSE [st EXCEPT !.lines = Append(@, parse_inline_styles(line))]
        RECURSIVE For(_, _)
        For(st, ls) == IF ls = <<>> THEN st ELSE For(Step(st, Head(ls)), Tail(ls))
    IN For([lines |-> <<>>, in_code_block |-> FALSE, current_lang |-> <<>>,
            code_block_content |-> <<>>],
           lines(text))

\* parse_markdown: the loop, then the block a text ends in, highlighted with no
\* closing fence after it.
parse_markdown(text) ==
    LET Unclosed(st) ==
            IF st.in_code_block /\ st.code_block_content # <<>>
            THEN st.lines \o HighlightBlock(st.current_lang, st.code_block_content)
            ELSE st.lines
    IN Unclosed(ForLines(text))

\* The texts rendered: up to MaxMdLines lines, each an opening fence with a tag,
\* a bare fence, an indented fence, a line of code or a line with bold markers,
\* joined by line-feeds; and one or two lines of text with bold markers.
MdTexts ==
    LET Catalogue == {<<96, 96, 96, 112, 121>>, Fence, <<32, 96, 96, 96>>,
                      <<97, 61, 49, 34, 98>>, <<97, 42, 42, 98>>}
        RECURSIVE Join(_)
        Join(ls) ==
            IF ls = <<>> THEN <<>>
            ELSE IF Len(ls) = 1 THEN ls[1]
            ELSE ls[1] \o <<LF>> \o Join(Tail(ls))
        \* Lines with pairs of asterisks in them: **a**b, a****b, a***b, **, *a*, a**
        Bold == {<<42, 42, 97, 42, 42, 98>>,
                 <<97, 42, 42, 42, 42, 98>>,
                 <<97, 42, 42, 42, 98>>,
                 <<42, 42>>,
                 <<42, 97, 42>>,
                 <<97, 42, 42>>}
    IN {Join(ls) : ls \in UNION {[1..k -> Catalogue] : k \in 0..MaxMdLines}}
           \cup {Join(ls) : ls \in UNION {[1..k -> Bold] : k \in 1..2}}

\* A renderer that keeps its Vec of lines from one call to the next.
RenderKeeps(text) ==
    /\ Len(rendered) < MaxCalls
    /\ rendered' = Append(rendered,
                          [text |-> text,
                           lines |-> Flatten([i \in 1..Len(rendered) |-> rendered[i].lines])
                                         \o parse_markdown(text)])
    /\ UNCHANGED <<appVars, rx, envVars, fwd_pc, decVars, ghostVars, files, results>>

\* draw_main_chat calls parse_markdown(&msg.content, &self.ps, &self.ts).
Render(text) ==
    /\ Len(rendered) < MaxCalls
    /\ rendered' = Append(rendered, [text |-> text, lines |-> parse_markdown(text)])
    /\ UNCHANGED <<appVars, rx, envVars, fwd_pc, decVars, ghostVars, files, results>>

MdNext == \E text \in MdTexts : Render(text)

MdSpec == Init /\ [][MdNext]_vars

(***************************************************************************)
(* tools.rs.  A tool gives [result, files, effect]: the text it returns,   *)
(* the file system it leaves (a set of <<path, content>>) and the side     *)
(* effect it attempted.  o is what the operating system or the network     *)
(* does with that attempt: [ok, then_ok, data, err].                       *)
(***************************************************************************)
\* serde_json::from_str(json_str).ok()?.get(field)?.as_str().map(to_string)
extract_json_field(json_str, field) ==
    LET Field(json) == IF json.some THEN AndThen(Get(json.v, field), as_str) ELSE None
    IN Field(from_str(json_str))

Done(result, fs, effect) == [result |-> result, files |-> fs, effect |-> effect]

\* `sh -c command_str`, its output awaited.
run_command(args, fs, o) ==
    LET command_str == UnwrapOr(extract_json_field(args, <<99, 111, 109, 109, 97, 110, 100>>), args)
    IN IF o.ok
       THEN Done(<<83, 84, 68, 79, 85, 84, 58, 10>> \o from_utf8_lossy(o.data) \o <<10, 83, 84, 68, 69, 82, 82, 58, 10>>, fs,
                 <<"sh", command_str>>)
       ELSE Done(<<70, 97, 105, 108, 101, 100, 32, 116, 111, 32, 101, 120, 101, 99, 117, 116, 101, 32, 99, 111, 109, 109, 97, 110, 100, 58, 32>> \o o.err, fs, <<"sh", command_str>>)

\* A tool that runs whatever it is given as a command.
RunAnything(name, args, fs, o) == run_command(args, fs, o)

execute_tool(name, args, fs, o) ==
    LET Field(field) == UnwrapOr(extract_json_field(args, field), <<>>)
        FieldOrArgs(field) == UnwrapOr(extract_json_field(args, field), args)
        Exists(path) == \E f \in fs : f[1] = path
        ContentOf(path) == (CHOOSE f \in fs : f[1] = path)[2]
        Without(path) == {f \in fs : f[1] # path}
        NotFound == <<78, 111, 32, 115, 117, 99, 104, 32, 102, 105, 108, 101, 32, 111, 114, 32, 100, 105, 114, 101, 99, 116, 111, 114, 121, 32, 40, 111, 115, 32, 101, 114, 114, 111, 114, 32, 50, 41>>
        \* fs::write(&path, content)
        create_file(path, content) ==
            IF path = <<>> THEN Done(<<69, 114, 114, 111, 114, 58, 32, 39, 112, 97, 116, 104, 39, 32, 105, 115, 32, 114, 101, 113, 117, 105, 114, 101, 100>>, fs, <<"none">>)
            ELSE IF o.ok
            THEN Done(<<83, 117, 99, 99, 101, 115, 115, 102, 117, 108, 108, 121, 32, 99, 114, 101, 97, 116, 101, 100, 47, 119, 114, 105, 116, 116, 101, 110, 32, 116, 111, 32>> \o path,
                      Without(path) \cup {<<path, content>>}, <<"write", path>>)
            ELSE Done(<<69, 114, 114, 111, 114, 32, 119, 114, 105, 116, 105, 110, 103, 32, 102, 105, 108, 101, 58, 32>> \o o.err, fs, <<"write", path>>)
        \* OpenOptions::new().append(true).open(&path), then write_all
        update_file(path, content) ==
            IF path = <<>> THEN Done(<<69, 114, 114, 111, 114, 58, 32, 39, 112, 97, 116, 104, 39, 32, 105, 115, 32, 114, 101, 113, 117, 105, 114, 101, 100>>, fs, <<"none">>)
            ELSE IF ~o.ok THEN Done(<<69, 114, 114, 111, 114, 32, 111, 112, 101, 110, 105, 110, 103, 32, 102, 105, 108, 101, 58, 32>> \o o.err, fs, <<"append", path>>)
            ELSE IF ~Exists(path)
            THEN Done(<<69, 114, 114, 111, 114, 32, 111, 112, 101, 110, 105, 110, 103, 32, 102, 105, 108, 101, 58, 32>> \o NotFound, fs, <<"append", path>>)
            ELSE IF ~o.then_ok
            THEN Done(<<69, 114, 114, 111, 114, 32, 119, 114, 105, 116, 105, 110, 103, 32, 116, 111, 32, 102, 105, 108, 101, 58, 32>> \o o.err, fs, <<"append", path>>)
            ELSE Done(<<83, 117, 99, 99, 101, 115, 115, 102, 117, 108, 108, 121, 32, 117, 112, 100, 97, 116, 101, 100, 32>> \o path,
                      Without(path) \cup {<<path, ContentOf(path) \o content>>},
                      <<"append", path>>)
        \* fs::remove_file(&path)
        delete_file(path) ==
            IF ~o.ok THEN Done(<<69, 114, 114, 111, 114, 32, 100, 101, 108, 101, 116, 105, 110, 103, 32, 102, 105, 108, 101, 58, 32>> \o o.err, fs, <<"remove", path>>)
            ELSE IF ~Exists(path)
            THEN Done(<<69, 114, 114, 111, 114, 32, 100, 101, 108, 101, 116, 105, 110, 103, 32, 102, 105, 108, 101, 58, 32>> \o NotFound, fs, <<"remove", path>>)
            ELSE Done(<<83, 117, 99, 99, 101, 115, 115, 102, 117, 108, 108, 121, 32, 100, 101, 108, 101, 116, 101, 100, 32>> \o path, Without(path), <<"remove", path>>)
        Decimal(n) == IF n < 10 THEN <<48 + n>> ELSE <<48 + (n \div 10), 48 + (n % 10)>>
        \* reqwest::get(url), then res.text()
        search_google(query) ==
            IF ~o.ok THEN Done(<<83, 101, 97, 114, 99, 104, 32, 114, 101, 113, 117, 101, 115, 116, 32, 102, 97, 105, 108, 101, 100, 58, 32>> \o o.err, fs, <<"get", query>>)
            ELSE IF ~o.then_ok THEN Done(<<70, 97, 105, 108, 101, 100, 32, 116, 111, 32, 114, 101, 97, 100, 32, 114, 101, 115, 112, 111, 110, 115, 101, 32, 116, 101, 120, 116>>, fs, <<"get", query>>)
            ELSE Done(<<83, 101, 97, 114, 99, 104, 32, 114, 101, 116, 117, 114, 110, 101, 100, 32>> \o Decimal(Len(o.data))
                          \o <<32, 98, 121, 116, 101, 115, 46, 32, 40, 67, 111, 110, 115, 105, 100, 101, 114, 32, 112, 97, 114, 115, 105, 110, 103, 32, 116, 104, 105, 115, 32, 119, 105, 116, 104, 32, 115, 99, 114, 97, 112, 101, 114, 47, 118, 105, 115, 100, 111, 109, 41>>,
                      fs, <<"get", query>>)
    IN CASE name = <<114, 117, 110, 95, 99, 111, 109, 109, 97, 110, 100>> -> run_command(args, fs, o)
         [] name = <<99, 114, 101, 97, 116, 101, 95, 102, 105, 108, 101>> -> create_file(Field(<<112, 97, 116, 104>>), Field(<<99, 111, 110, 116, 101, 110, 116>>))
         [] name = <<117, 112, 100, 97, 116, 101, 95, 102, 105, 108, 101>> -> update_file(Field(<<112, 97, 116, 104>>), Field(<<99, 111, 110, 116, 101, 110, 116>>))
         [] name = <<100, 101, 108, 101, 116, 101, 95, 102, 105, 108, 101>> -> delete_file(FieldOrArgs(<<112, 97, 116, 104>>))
         [] name = <<115, 101, 97, 114, 99, 104, 95, 103, 111, 111, 103, 108, 101>> -> search_google(FieldOrArgs(<<113, 117, 101, 114, 121>>))
         [] OTHER -> Done(<<69, 114, 114, 111, 114, 58, 32, 85, 110, 107, 110, 111, 119, 110, 32, 116, 111, 111, 108, 32, 39>> \o name \o <<39>>, fs, <<"none">>)

\* The calls made of execute_tool: the five tools and a name that is none of
\* them; arguments that parse, that are cut short and that are not JSON; and a
\* system that lets the side effect succeed, fail at once or fail in its
\* second step.
ToolInputs ==
    [name : {<<114, 117, 110, 95, 99, 111, 109, 109, 97, 110, 100>>, <<99, 114, 101, 97, 116, 101, 95, 102, 105, 108, 101>>, <<117, 112, 100, 97, 116, 101, 95, 102, 105, 108, 101>>, <<100, 101, 108, 101, 116, 101, 95, 102, 105, 108, 101>>,
             <<115, 101, 97, 114, 99, 104, 95, 103, 111, 111, 103, 108, 101>>, <<102, 111, 114, 109, 97, 116, 95, 100, 105, 115, 107>>},
     args : {<<123, 34, 112, 97, 116, 104, 34, 58, 34, 97, 34, 44, 34, 99, 111, 110, 116, 101, 110, 116, 34, 58, 34, 120, 34, 125>>, <<123, 34, 112, 97, 116, 104, 34, 58, 34, 97, 34>>, <<123, 34, 99, 111, 109, 109, 97, 110, 100, 34, 58, 34, 108, 115, 34, 125>>,
             <<123, 34, 113, 117, 101, 114, 121, 34, 58, 34, 113, 34, 125>>, <<97>>},
     o : {[ok |-> TRUE, then_ok |-> TRUE, data |-> <<104, 105>>, err |-> <<>>],
          [ok |-> TRUE, then_ok |-> FALSE, data |-> <<>>, err |-> <<98, 114, 111, 107, 101, 110, 32, 112, 105, 112, 101>>],
          [ok |-> FALSE, then_ok |-> FALSE, data |-> <<>>, err |-> <<112, 101, 114, 109, 105, 115, 115, 105, 111, 110, 32, 100, 101, 110, 105, 101, 100>>]}]

ExecuteTool(call) ==
    LET Returned(r) ==
            /\ results' = Append(results, [name |-> call.name, args |-> call.args,
                                           o |-> call.o, result |-> r.result,
                                           effect |-> r.effect, before |-> files])
            /\ files' = r.files
    IN
    /\ Len(results) < MaxCalls
    /\ Returned(execute_tool(call.name, call.args, files, call.o))
    /\ UNCHANGED <<appVars, rx, envVars, fwd_pc, decVars, ghostVars, rendered>>

ToolNext == \E call \in ToolInputs : ExecuteTool(call)

ToolSpec == Init /\ [][ToolNext]_vars

(***************************************************************************)
(* Properties.                                                             *)
(***************************************************************************)
IsPrefix(a, b) == Len(a) <= Len(b) /\ SubSeq(b, 1, Len(a)) = a

Contains(s, sub) ==
    \E i \in 0..(Len(s) - Len(sub)) : SubSeq(s, i + 1, i + Len(sub)) = sub

OfType(seq, type) == SelectSeq(seq, LAMBDA x : x.type = type)

\* The events of every complete line of a byte stream decoded in one piece.
StreamEvents(bytes) == DrainLines(from_utf8_lossy(bytes), <<>>).events

\* The request of turn t got a success status and its stream is being read or is over.
Streamed(t) ==
    /\ requests[t] = 1
    /\ script[t].send_ok
    /\ IsSuccess(script[t].status)

\* What stream_response sends last on a stream that stopped as the script says.
Terminal(t) ==
    IF dec_pc[t] # "done" THEN <<>>
    ELSE IF script[t].tail = "error" THEN <<Error(S_Error \o script[t].err), Finished>>
    ELSE <<Finished>>

\* C1. Chunk-boundary invariance: a valid event line fed as two chunks, cut at any
\* byte offset inside it, gives no event from the first chunk and, from the second,
\* exactly the events the unsplit line gives.
C1_ChunkBoundaryInvariance ==
    \A t \in Turns :
        (/\ Streamed(t)
         /\ Len(script[t].chunks) = 2
         /\ script[t].chunks[1] # <<>>
         /\ script[t].chunks[2] # <<>>
         /\ \E l \in ValidLines :
                script[t].chunks[1] \o script[t].chunks[2] = Terminated(l))
        => /\ pos[t] = 1 => emitted[t] = <<>>
           /\ (pos[t] = 2 /\ dec_pc[t] = "stream")
                  => emitted[t] = Ingest(<<>>, script[t].chunks[1] \o script[t].chunks[2]).events

\* C2. Per-turn ordering: the actions of a turn that App::update has handled are, in
\* order, AiResponseStart and then what the updates the decoder task sent are
\* forwarded as; AiResponseFinish is handled last, nothing of the turn after it.
C2_PerTurnOrdering ==
    \A t \in Turns :
        /\ IsPrefix(processed[t],
                    <<AiResponseStart(t)>>
                        \o Flatten([i \in 1..Len(emitted[t]) |-> Forwarded(emitted[t][i], t)]))
        /\ \A i \in 1..(Len(processed[t]) - 1) : processed[t][i].type # "AiResponseFinish"

\* A turn went through the read-error path to its end, a usage report and the error
\* handled before AiResponseFinish, with a tick handled on the way.
C2_Witness ==
    \E t \in Turns :
        /\ Len(processed[t]) = 4
        /\ processed[t][2].type = "UpdateUsage"
        /\ processed[t][3].type = "AiResponseError"
        /\ processed[t][4].type = "AiResponseFinish"
        /\ ticks_sent = 1
        /\ rx = <<>>

\* The text of the content deltas of turn t that App::update has handled.
HandledText(t) ==
    Flatten([i \in 1..Len(OfType(processed[t], "AiResponseChunk")) |->
                 OfType(processed[t], "AiResponseChunk")[i].text])

\* C3. An assistant message holds exactly the content deltas of its own turn handled
\* so far, in order: none dropped, none of another turn appended.
C3_OwnTurnDeltasOnly ==
    \A i \in 1..Len(messages) :
        messages[i].role = "AI" => messages[i].content = HandledText(messages[i].turn)

Ended(t) == \E k \in 1..Len(processed[t]) : processed[t][k].type = "AiResponseFinish"

\* C4. The text of an assistant message only grows by appending, and no step changes
\* it once the AiResponseFinish of its turn has been handled.
C4_FrozenAfterEnd ==
    [][\A i \in 1..Len(messages) : \A j \in 1..Len(messages') :
           (/\ messages[i].role = "AI"
            /\ messages'[j].role = "AI"
            /\ messages'[j].turn = messages[i].turn)
           => /\ IsPrefix(messages[i].content, messages'[j].content)
              /\ Ended(messages[i].turn) => messages'[j].content = messages[i].content]_vars

\* C5. No ToolCall the decoder sent is taken off the turn's channel and dropped: each
\* one goes on to the tool executor.
C5_NoToolCallDropped ==
    \A t \in Turns : \A i \in 1..Len(dropped[t]) : dropped[t][i].type # "ToolCall"

\* C6. The usage totals never decrease: the prompt total, the response total and the
\* displayed grand total after a step are at least what they were before it.
C6_TotalsMonotonic ==
    [][/\ total_prompt_tokens' >= total_prompt_tokens
       /\ total_response_tokens' >= total_response_tokens
       /\ DisplayedTotal' >= DisplayedTotal]_vars

\* The usage reports App::update has handled, over all turns.
Reports ==
    Flatten([t \in Turns |->
                 [i \in 1..Len(OfType(processed[t], "UpdateUsage")) |->
                      OfType(processed[t], "UpdateUsage")[i].usage]])

RECURSIVE Sum(_)
Sum(xs) == IF xs = <<>> THEN 0 ELSE Head(xs) + Sum(Tail(xs))

\* total is the exact sum of xs; the sum is taken in 16-bit halves.
IsSumOf(total, xs) ==
    LET lo == Sum([i \in 1..Len(xs) |-> xs[i] % 65536])
        hi == Sum([i \in 1..Len(xs) |-> xs[i] \div 65536])
    IN /\ total % 65536 = lo % 65536
       /\ total \div 65536 = hi + (lo \div 65536)

\* C7. Each total is the sum of the reported counters of its kind: the prompt total of
\* the prompt counters, the response total of the response counters, and the total
\* shown to the user of the reported total counters.
C7_AllCountersSummed ==
    ~panicked =>
        /\ IsSumOf(total_prompt_tokens,
                   [i \in 1..Len(Reports) |-> Reports[i].prompt_tokens])
        /\ IsSumOf(total_response_tokens,
                   [i \in 1..Len(Reports) |-> Reports[i].response_tokens])
        /\ IsSumOf(DisplayedTotal, [i \in 1..Len(Reports) |-> Reports[i].total_tokens])

\* C8. Transport failure: once a read of the stream has failed, the turn has sent the
\* events of the complete lines received, then one Error, then Finished, and nothing
\* else; the partial line is still in the buffer, unparsed; one request was made.
C8_TransportFailure ==
    \A t \in Turns :
        (Streamed(t) /\ dec_pc[t] = "done" /\ script[t].tail = "error")
        => /\ emitted[t] = StreamEvents(Flatten(script[t].chunks))
                               \o <<Error(S_Error \o script[t].err), Finished>>
           /\ Len(OfType(emitted[t], "Error")) = 1
           /\ buffer[t] = DrainLines(from_utf8_lossy(Flatten(script[t].chunks)), <<>>).buffer
           /\ requests[t] = 1

\* A read failed after a content line and an unterminated event line had arrived.
C8_Witness ==
    \E t \in Turns :
        /\ Streamed(t) /\ dec_pc[t] = "done" /\ script[t].tail = "error"
        /\ script[t].chunks = <<Terminated(LnHi), LnHi>>
        /\ buffer[t] = from_utf8_lossy(LnHi)
        /\ Len(emitted[t]) = 3

\* The request of turn t was answered with a status that is not a success.
Refused(t) ==
    /\ requests[t] = 1
    /\ script[t].send_ok
    /\ ~IsSuccess(script[t].status)

CodeDigits(status) ==
    CASE status = 404 -> <<52, 48, 52>>
      [] status = 500 -> <<53, 48, 48>>

\* C9 as stated. Handshake failure: the turn sends one Error whose message carries the
\* status code and the text of the response body, then Finished, and nothing else.
C9_AsStated ==
    \A t \in Turns :
        Refused(t)
        => /\ Len(emitted[t]) = 2
           /\ emitted[t][1].type = "Error"
           /\ Contains(emitted[t][1].msg, CodeDigits(script[t].status))
           /\ Contains(emitted[t][1].msg, from_utf8_lossy(script[t].body))
           /\ emitted[t][2] = Finished

\* C9, amended. Handshake failure: the turn sends one Error whose message carries the
\* status code and the text of the response body, or "Could not read error body"
\* where the body could not be read; then Finished, and nothing else.
C9_HandshakeFailure ==
    \A t \in Turns :
        Refused(t)
        => /\ Len(emitted[t]) = 2
           /\ emitted[t][1].type = "Error"
           /\ Contains(emitted[t][1].msg, CodeDigits(script[t].status))
           /\ Contains(emitted[t][1].msg,
                       IF script[t].body_ok THEN from_utf8_lossy(script[t].body)
                       ELSE S_NoBody)
           /\ emitted[t][2] = Finished

\* A request was refused with a body that reads as an event line.
C9_Witness ==
    \E t \in Turns :
        /\ Refused(t)
        /\ script[t].status = 404
        /\ script[t].body_ok
        /\ script[t].body = Terminated(LnHi)
        /\ dec_pc[t] = "done"

\* A chunk that is one complete line with the event prefix and a payload that
\* from_str rejects.
IsMalformed(chunk) ==
    /\ Find(chunk, LF) = Len(chunk)
    /\ StartsWith(from_utf8_lossy(chunk), DataPrefix)
    /\ ~from_str(Drop(TrimCr(SubSeq(from_utf8_lossy(chunk), 1, Len(chunk) - 1)),
                      Len(DataPrefix))).some

\* C10. Malformed line resilience: over a stream of lines, the events sent are those
\* of the same lines with the malformed ones removed; a malformed line sends nothing.
C10_MalformedLineResilience ==
    \A t \in Turns :
        (Streamed(t) /\ script[t] \in LineScripts)
        => emitted[t] =
               StreamEvents(Flatten(SelectSeq(SubSeq(script[t].chunks, 1, pos[t]),
                                              LAMBDA c : ~IsMalformed(c))))
                   \o Terminal(t)

\* A truncated event line came first and the content line after it was decoded.
C10_Witness ==
    \E t \in Turns :
        /\ Streamed(t)
        /\ script[t].chunks = <<Terminated(LnTrunc), Terminated(LnHi)>>
        /\ script[t].tail = "end"
        /\ dec_pc[t] = "done"
        /\ Len(emitted[t]) = 2
        /\ emitted[t][1].type = "Content"

\* C11. Line-ending tolerance: a line ended by carriage-return and line-feed, in one
\* chunk or in two, gives the events the line ended by line-feed alone gives; one
\* trailing carriage-return is stripped from a line, and only one.
C11_LineEndingTolerance ==
    \A t \in Turns : \A l \in ValidLines \cup LineCatalogue :
        (Streamed(t) /\ script[t] \in CrForms(l) /\ pos[t] = Len(script[t].chunks))
        => /\ emitted[t] = StreamEvents(Terminated(l)) \o Terminal(t)
           /\ buffer[t] = <<>>
           /\ TrimCr(l \o <<CR>>) = l
           /\ TrimCr(l \o <<CR, CR>>) = l \o <<CR>>

\* The content line arrived with its carriage-return in one chunk and its line-feed
\* in the next, and was decoded.
C11_Witness ==
    \E t \in Turns :
        /\ script[t] = OkScript(<<LnHi \o <<CR>>, <<LF>>>>, "end")
        /\ dec_pc[t] = "done"
        /\ emitted[t] = <<Content(<<104, 105>>), Finished>>

\* The events of the chunks of a sequence that end with a line-feed, each taken as
\* one line.
TerminatedEvents(chunks) ==
    Flatten([i \in 1..Len(chunks) |->
                 IF chunks[i] # <<>> /\ chunks[i][Len(chunks[i])] = LF
                 THEN LineEvents(from_utf8_lossy(SubSeq(chunks[i], 1, Len(chunks[i]) - 1)))
                 ELSE <<>>])

\* C12. A trailing partial line is never emitted: when the stream has ended, by its
\* end or by a read error, the events of the turn are those of its line-feed-terminated
\* lines and the terminal ones; the bytes after the last line-feed are still in the
\* buffer, unparsed, even where they are a whole valid event payload.
C12_PartialLineDiscarded ==
    \A t \in Turns :
        (Streamed(t) /\ script[t] \in LineScripts /\ dec_pc[t] = "done")
        => /\ emitted[t] = TerminatedEvents(script[t].chunks) \o Terminal(t)
           /\ \A i \in 1..Len(script[t].chunks) :
                  script[t].chunks[i][Len(script[t].chunks[i])] # LF
                      => buffer[t] = from_utf8_lossy(script[t].chunks[i])

\* The stream ended normally after a usage line and a valid content payload with no
\* line-feed after it.
C12_Witness ==
    \E t \in Turns :
        /\ script[t] = OkScript(<<Terminated(LnUsage), LnHi>>, "end")
        /\ dec_pc[t] = "done"
        /\ emitted[t] = <<Usage(1, 1, 3), Finished>>
        /\ buffer[t] = from_utf8_lossy(LnHi)

IsFenceLine(line) == StartsWith(trim(line), Fence)

\* The text of a rendered line: its spans' contents, concatenated.
LineText(line) == Flatten([i \in 1..Len(line) |-> line[i].content])

C14_FenceRoundTrip ==
    \A c \in 1..Len(rendered) :
        LET ls == lines(rendered[c].text)
            out == rendered[c].lines
        IN (/\ Len(ls) >= 2
            /\ \A k \in 1..Len(ls) : IsFenceLine(ls[k]) <=> k \in {1, Len(ls)})
           => /\ Len(out) = Len(ls)
              /\ out[1] = <<Span(ls[1], "DarkGray", FALSE)>>
              /\ out[Len(out)] = <<Span(Fence, "DarkGray", FALSE)>>
              /\ \A k \in 2..(Len(ls) - 1) : LineText(out[k]) = ls[k]

\* The lines of a text after its last fence line, where that fence is still open.
OpenBlock(ls) ==
    LET fences == {k \in 1..Len(ls) : IsFenceLine(ls[k])}
        last == CHOOSE k \in fences : \A j \in fences : j <= k
    IN IF Cardinality(fences) % 2 = 1 THEN SubSeq(ls, last + 1, Len(ls)) ELSE <<>>

\* C15. Unterminated fence: a text that ends inside an open fence with n >= 1 source
\* lines renders with, at its end, n highlighted lines, one per source line in order,
\* and no closing-fence line; and a text that goes on with more source lines in the same
\* fence renders with the same lines first.
C15_UnterminatedFence ==
    /\ \A c \in 1..Len(rendered) :
           LET src == OpenBlock(lines(rendered[c].text))
               out == rendered[c].lines
               n == Len(src)
           IN n >= 1
              => /\ Len(out) >= n
                 /\ \A k \in 1..n :
                        /\ IsPrefix(src[k], LineText(out[Len(out) - n + k]))
                        /\ \A i \in 1..Len(out[Len(out) - n + k]) :
                               out[Len(out) - n + k][i].fg # "DarkGray"
                 /\ Len(out) > n
                 /\ out[Len(out) - n] =
                        <<Span(lines(rendered[c].text)[Len(lines(rendered[c].text)) - n],
                               "DarkGray", FALSE)>>
    /\ \A c \in 1..Len(rendered) : \A d \in 1..Len(rendered) :
           LET ls == lines(rendered[c].text)
               more == lines(rendered[d].text)
           IN (/\ Len(OpenBlock(ls)) >= 1
               /\ Len(more) > Len(ls)
               /\ SubSeq(more, 1, Len(ls)) = ls
               /\ \A k \in (Len(ls) + 1)..Len(more) : ~IsFenceLine(more[k]))
              => /\ Len(rendered[d].lines) = Len(rendered[c].lines) + Len(more) - Len(ls)
                 /\ IsPrefix(rendered[c].lines, rendered[d].lines)

\* An open block of one line was rendered, then the same block with a second line.
C15_Witness ==
    /\ Len(rendered) = 2
    /\ rendered[1].text = <<96, 96, 96, 112, 121, 10, 97, 61, 49, 34, 98>>
    /\ rendered[2].text = <<96, 96, 96, 112, 121, 10, 97, 61, 49, 34, 98, 10, 97, 42, 42, 98>>
    /\ Len(rendered[1].lines) = 2
    /\ Len(rendered[2].lines) = 3

\* C16. The tool executor always returns a text: for every name and every argument
\* text, cut-short and non-JSON arguments included, the result is a text; a name that
\* is no tool gives a text that names it, with no side effect attempted and the files
\* as they were; a side effect that fails gives a text that carries the failure, and
\* leaves the files as they were.
C16_ToolAlwaysReturnsText ==
    \A c \in 1..Len(results) :
        LET r == results[c]
            known == r.name \in {<<114, 117, 110, 95, 99, 111, 109, 109, 97, 110, 100>>, <<99, 114, 101, 97, 116, 101, 95, 102, 105, 108, 101>>, <<117, 112, 100, 97, 116, 101, 95, 102, 105, 108, 101>>, <<100, 101, 108, 101, 116, 101, 95, 102, 105, 108, 101>>, <<115, 101, 97, 114, 99, 104, 95, 103, 111, 111, 103, 108, 101>>}
        IN /\ r.result # <<>>
           /\ r.result \in Seq(0..1114111)
           /\ ~known => /\ r.result = <<69, 114, 114, 111, 114, 58, 32, 85, 110, 107, 110, 111, 119, 110, 32, 116, 111, 111, 108, 32, 39>> \o r.name \o <<39>>
                        /\ r.effect = <<"none">>
                        /\ (c < Len(results) => results[c + 1].before = r.before)
                        /\ (c = Len(results) => files = r.before)
           /\ (known /\ ~r.o.ok /\ r.effect # <<"none">>)
                  => /\ Contains(r.result, r.o.err)
                     /\ (c = Len(results) => files = r.before)

\* A name that is no tool was called, and then create_file with a write that failed.
C16_Witness ==
    /\ Len(results) = 2
    /\ results[1].name = <<102, 111, 114, 109, 97, 116, 95, 100, 105, 115, 107>>
    /\ results[2].name = <<99, 114, 101, 97, 116, 101, 95, 102, 105, 108, 101>>
    /\ results[2].args = <<123, 34, 112, 97, 116, 104, 34, 58, 34, 97, 34, 44, 34, 99, 111, 110, 116, 101, 110, 116, 34, 58, 34, 120, 34, 125>>
    /\ ~results[2].o.ok
    /\ results[2].result = <<69, 114, 114, 111, 114, 32, 119, 114, 105, 116, 105, 110, 103, 32, 102, 105, 108, 101, 58, 32, 112, 101, 114, 109, 105, 115, 115, 105, 111, 110, 32, 100, 101, 110, 105, 101, 100>>

\* The events of an offline turn whose message was text.
Canned(text) ==
    <<Content(<<40, 77, 111, 99, 107, 32, 65, 73, 41, 58, 32>>),
      Content(<<73, 32, 114, 101, 99, 101, 105, 118, 101, 100, 58, 32, 39>> \o text \o <<39, 46, 10>>),
      Content(<<83, 101, 116, 32, 71, 69, 77, 73, 78, 73, 95, 65, 80, 73, 95, 75, 69, 89, 32, 102, 111, 114, 32, 114, 101, 97, 108, 32, 114, 101, 115, 112, 111, 110, 115, 101, 115, 46>>),
      Usage(10, 20, 30),
      Finished>>

\* C17. Offline demonstration mode: with no credential set a turn makes no request and
\* sends, in this order, the fixed prefix, the line echoing the user's input, the fixed
\* hint, a usage report of prompt 10, response 20, total 30, and Finished; no Error and
\* no ToolCall.
C17_OfflineMode ==
    ~has_key =>
        \A t \in Turns :
            /\ requests[t] = 0
            /\ IsPrefix(emitted[t], Canned(input[t]))
            /\ dec_pc[t] = "done" => emitted[t] = Canned(input[t])

\* Two offline turns have run to their end.
C17_Witness ==
    /\ ~has_key
    /\ \A t \in Turns : dec_pc[t] = "done" /\ Len(emitted[t]) = 5 /\ input[t] # <<>>

(***************************************************************************)
(* C18  Single-consumer discipline.  The application state (the message    *)
(* list, the token totals, the loading flag, the input mode, the quit     *)
(* flag, and with them the spinner and the text area) changes only in a   *)
(* step in which the main loop takes the action at the head of the action *)
(* queue; a step of a decoder, forwarding, tick or key task leaves that   *)
(* state as it was and only puts actions on the queue.                    *)
(***************************************************************************)
C18_SingleConsumer ==
    [][ /\ appVars' # appVars =>
            /\ rx # <<>>
            /\ Len(rx') <= Len(rx)
            /\ IsPrefix(Tail(rx), rx')
        /\ Len(rx') > Len(rx) => rx' = Append(rx, rx'[Len(rx')]) /\ appVars' = appVars
      ]_vars

\* Both kinds of step have happened: tasks have queued actions, the loop has
\* taken a streamed delta off the queue and changed a message with it.
C18_Witness ==
    /\ ticks_sent = MaxTicks
    /\ keys_sent > 0
    /\ spinner_index > 0
    /\ \E t \in Turns : emitted[t] # <<>> /\ processed[t] # <<>>
    /\ \E i \in 1..Len(messages) : messages[i].role = "AI" /\ messages[i].content # <<>>

(***************************************************************************)
(* C19  No empty content delta.  No Content event the decoder sends has    *)
(* the empty string for its text, whatever object and part it was decoded  *)
(* from, a part whose text field is present and empty included.            *)
(***************************************************************************)
C19_NoEmptyContent ==
    \A t \in Turns : \A i \in 1..Len(emitted[t]) :
        emitted[t][i].type = "Content" => emitted[t][i].text # <<>>

\* The integer a payload carries, as parsed, is the number n.
IntEquals(val, n) ==
    /\ val.t = "int"
    /\ IF n = MinI32 THEN val.neg /\ val.mag = <<0, 32768, 0, 0>>
       ELSE IF n < 0 THEN val.neg /\ val.mag = <<(-n) % 65536, (-n) \div 65536, 0, 0>>
       ELSE (n = 0 \/ ~val.neg) /\ val.mag = <<n % 65536, n \div 65536, 0, 0>>

\* The events ev of one decoded object are those of its parts and then, where the
\* object has a usage block, one usage report whose counters are the block's.
UsageReported(json, ev) ==
    LET own == CandidateEvents(json)
        CounterIs(field, n) ==
            IF field.some THEN field.v.t = "int" => IntEquals(field.v, n) ELSE n = 0
        ReportIs(usage, u) ==
            /\ u.type = "Usage"
            /\ CounterIs(Get(usage, K_promptTokenCount), u.prompt_tokens)
            /\ CounterIs(Get(usage, K_candidatesTokenCount), u.response_tokens)
            /\ CounterIs(Get(usage, K_totalTokenCount), u.total_tokens)
        Block(usage) ==
            IF usage.some
            THEN Len(ev) = Len(own) + 1 /\ ReportIs(usage.v, ev[Len(ev)])
            ELSE Len(ev) = Len(own)
    IN /\ Len(ev) >= Len(own)
       /\ SubSeq(ev, 1, Len(own)) = own
       /\ OfType(own, "Usage") = <<>>
       /\ Block(Get(json, K_usageMetadata))

(***************************************************************************)
(* C20  Usage reporting.  A decoded object with a usage block gives        *)
(* exactly one Usage event, sent after every Content and ToolCall event of *)
(* its line; each counter of the event is the integer the payload carries  *)
(* for it, and zero where the payload has none; an object without a usage  *)
(* block gives no Usage event.                                             *)
(***************************************************************************)
C20_UsagePerBlock ==
    \A t \in Turns : \A l \in EdgeLines :
        (/\ Streamed(t)
         /\ script[t] = OkScript(<<Terminated(l)>>, "end")
         /\ pos[t] = 1)
        => UsageReported(from_str(Drop(l, Len(DataPrefix))).v,
                         SubSeq(emitted[t], 1, Len(emitted[t]) - Len(Terminal(t))))

\* What of a text follows its last line-feed; the whole text where it has none.
AfterLastLf(text) ==
    IF \E i \in 1..Len(text) : text[i] = LF
    THEN Drop(text, CHOOSE i \in 1..Len(text) :
                        text[i] = LF /\ \A j \in (i + 1)..Len(text) : text[j] # LF)
    ELSE text

\* The bytes the stream of turn t has delivered so far.
Received(t) == Flatten(SubSeq(script[t].chunks, 1, pos[t]))

(***************************************************************************)
(* C21  Buffer invariant.  After each chunk has been processed the buffer  *)
(* holds no line-feed and is exactly the text received so far that follows *)
(* the last line-feed, verbatim; every line-feed-terminated line received  *)
(* so far has been taken out of it once, in arrival order.                 *)
(***************************************************************************)
C21_BufferInvariant ==
    \A t \in Turns :
        Streamed(t) =>
            /\ \A i \in 1..Len(buffer[t]) : buffer[t][i] # LF
            /\ buffer[t] = AfterLastLf(from_utf8_lossy(Received(t)))
            /\ Len(emitted[t]) - Len(Terminal(t)) = Len(StreamEvents(Received(t)))

\* A text without its last line.
WithoutLastLine(text) ==
    IF Len(lines(text)) <= 1 THEN <<>>
    ELSE SubSeq(text, 1, Len(text) - Len(lines(text)[Len(lines(text))]) - 1)

(***************************************************************************)
(* C22  Fence state.  After the lines of a text the fence is active if and *)
(* only if an odd number of them start, once trimmed, with three           *)
(* backticks, so no other line changes the state.  A line that opens a     *)
(* block adds one dim line, the line itself, and the text after its        *)
(* backticks becomes the language tag; a line that starts with three       *)
(* backticks while the fence is active closes the block whatever follows   *)
(* the backticks, and the tag stays what the opening line set.             *)
(***************************************************************************)
C22_FenceToggle ==
    \A c \in 1..Len(rendered) :
        LET Check(text, ls, st, before) ==
                LET n == Cardinality({i \in 1..Len(ls) : IsFenceLine(ls[i])})
                    last == ls[Len(ls)]
                IN /\ st.in_code_block <=> n % 2 = 1
                   /\ (ls # <<>> /\ ~IsFenceLine(last))
                          => st.in_code_block = before.in_code_block
                   /\ (ls # <<>> /\ IsFenceLine(last) /\ ~before.in_code_block)
                          => /\ st.in_code_block
                             /\ st.current_lang = Drop(trim(last), 3)
                             /\ rendered[c].lines =
                                    parse_markdown(WithoutLastLine(text))
                                        \o <<<<Span(last, "DarkGray", FALSE)>>>>
                   /\ (ls # <<>> /\ IsFenceLine(last) /\ before.in_code_block)
                          => /\ ~st.in_code_block
                             /\ st.current_lang = before.current_lang
                             /\ rendered[c].lines[Len(rendered[c].lines)]
                                    = <<Span(Fence, "DarkGray", FALSE)>>
        IN Check(rendered[c].text, lines(rendered[c].text), ForLines(rendered[c].text),
                 ForLines(WithoutLastLine(rendered[c].text)))

\* A block opened by a tagged fence was closed by a line that is itself a tagged
\* fence, and a block was opened by an indented fence.
C22_Witness ==
    /\ Len(rendered) = 2
    /\ rendered[1].text = <<96, 96, 96, 112, 121, 10, 97, 61, 49, 34, 98, 10, 96, 96, 96, 112, 121>>
    /\ Len(rendered[1].lines) = 3
    /\ rendered[2].text = <<97, 42, 42, 98, 10, 32, 96, 96, 96>>
    /\ rendered[2].lines[2] = <<Span(<<32, 96, 96, 96>>, "DarkGray", FALSE)>>

\* A line cut at each pair of asterisks, scanned from the left: the texts before,
\* between and after the pairs, the empty ones among them included.
RECURSIVE Segments(_, _, _)
Segments(line, i, current) ==
    IF i > Len(line) THEN <<current>>
    ELSE IF line[i] = 42 /\ i < Len(line) /\ line[i + 1] = 42
    THEN <<current>> \o Segments(line, i + 2, <<>>)
    ELSE Segments(line, i + 1, Append(current, line[i]))

(***************************************************************************)
(* C23  Inline bold.  For a line outside a fence the spans are the texts   *)
(* between the pairs of asterisks, scanned from the left, each one span    *)
(* and none of them empty; a span is bold if and only if an odd number of  *)
(* pairs come before it in its line; the spans' texts concatenated are the *)
(* line without the pairs; and the line is rendered as it would be alone,  *)
(* whatever markers the lines before it have.                              *)
(***************************************************************************)
C23_InlineBold ==
    \A c \in 1..Len(rendered) :
        LET Tokenized(line, spans, segs) ==
                /\ spans = SelectSeq([j \in 1..Len(segs) |-> Span(segs[j], "none", j % 2 = 0)],
                                     LAMBDA sp : sp.content # <<>>)
                /\ \A j \in 1..Len(spans) : spans[j].content # <<>>
                /\ LineText(spans) = Flatten(segs)
                /\ line # <<>> => <<spans>> = parse_markdown(line)
            Check(ls, out) ==
                (\A i \in 1..Len(ls) : ~IsFenceLine(ls[i]))
                    => /\ Len(out) = Len(ls)
                       /\ \A i \in 1..Len(ls) :
                              Tokenized(ls[i], out[i], Segments(ls[i], 1, <<>>))
        IN Check(lines(rendered[c].text), rendered[c].lines)

\* A line that leaves bold on was followed by a line with one pair in front of its
\* text, and that text alone is bold.
C23_Witness ==
    \E c \in 1..Len(rendered) :
        /\ rendered[c].text = <<97, 42, 42, 10, 42, 42, 97, 42, 42, 98>>
        /\ rendered[c].lines = << <<Span(<<97>>, "none", FALSE)>>,
                                  <<Span(<<97>>, "none", TRUE), Span(<<98>>, "none", FALSE)>> >>

(***************************************************************************)
(* C24  Span coalescing.  In every line rendered for code inside a fence,  *)
(* closed or not, no two adjacent spans have the same style: what the      *)
(* highlighter returns next to each other in one colour is one span.       *)
(***************************************************************************)
C24_SpansCoalesced ==
    \A c \in 1..Len(rendered) : \A i \in 1..Len(rendered[c].lines) :
        LET IsCode(sp) == sp.fg \notin {"none", "DarkGray"}
            Adjacent(spans) ==
                \A j \in 1..(Len(spans) - 1) :
                    (IsCode(spans[j]) /\ IsCode(spans[j + 1]))
                        => <<spans[j].fg, spans[j].bold>> # <<spans[j + 1].fg, spans[j + 1].bold>>
        IN Adjacent(rendered[c].lines[i])

\* The AiResponseFinish actions of turn t that App::update has handled.
Finishes(t) == Len(OfType(processed[t], "AiResponseFinish"))

(***************************************************************************)
(* C25  Every turn ends.  Of a turn that was started, once its request has *)
(* run to the end of the stream or to a failure, or its offline reply is   *)
(* out, the loop comes to handle exactly one AiResponseFinish, and the     *)
(* turn's forwarding task has stopped; never more than one is handled.     *)
(***************************************************************************)
C25_TurnEnds ==
    \A t \in Turns :
        /\ (fwd_pc[t] \in {"start", "loop"}) ~> (Finishes(t) = 1 /\ fwd_pc[t] = "done")
        /\ [](Finishes(t) <= 1)

(***************************************************************************)
(* C26  The loading flag tracks outstanding turns.  Whenever a turn has    *)
(* been started by SendMessage and the loop has handled neither its        *)
(* AiResponseFinish nor its AiResponseError, is_loading is true, turns     *)
(* that overlap included.                                                  *)
(***************************************************************************)
C26_LoadingTracksTurns ==
    (\E t \in Turns :
         /\ fwd_pc[t] # "idle"
         /\ OfType(processed[t], "AiResponseFinish") = <<>>
         /\ OfType(processed[t], "AiResponseError") = <<>>)
        => is_loading

\* The parts of the candidate at index 0 of a decoded object, none where the object
\* has no list of candidates, an empty one, or a first candidate without parts.
FirstParts(json) ==
    LET PartsOf(parts) == IF parts.some /\ parts.v.t = "arr" THEN parts.v.a ELSE <<>>
        ContentOf(content) == IF content.some THEN PartsOf(Get(content.v, K_parts)) ELSE <<>>
        Of(cands) ==
            IF cands.some /\ cands.v.t = "arr" /\ cands.v.a # <<>>
            THEN ContentOf(Get(cands.v.a[1], K_content))
            ELSE <<>>
    IN Of(Get(json, K_candidates))

(***************************************************************************)
(* C27  Only the first candidate gives events.  The Content and ToolCall   *)
(* events of a decoded object are those of the parts of its candidate at   *)
(* index 0, part after part, a part's Content before its ToolCall; the     *)
(* parts of a later candidate give nothing, and an object with an empty    *)
(* list of candidates, or none, gives no Content and no ToolCall.          *)
(***************************************************************************)
C27_FirstCandidateOnly ==
    \A t \in Turns : \A l \in EdgeLines :
        (/\ Streamed(t)
         /\ script[t] = OkScript(<<Terminated(l)>>, "end")
         /\ pos[t] = 1)
        => LET Check(parts, ev) ==
                   /\ ev = Flatten([i \in 1..Len(parts) |-> PartEvents(parts[i])])
                   /\ \A i \in 1..Len(parts) :
                          [j \in 1..Len(PartEvents(parts[i])) |-> PartEvents(parts[i])[j].type]
                              \in {<<>>, <<"Content">>, <<"ToolCall">>,
                                    <<"Content", "ToolCall">>}
           IN Check(FirstParts(from_str(Drop(l, Len(DataPrefix))).v),
                    SelectSeq(emitted[t], LAMBDA e : e.type \in {"Content", "ToolCall"}))

\* An object with two candidates was decoded and gave the text of the first alone.
C27_Witness ==
    /\ script[1] = OkScript(<<Terminated(LnTwoCand)>>, "end")
    /\ dec_pc[1] = "done"
    /\ emitted[1] = <<Content(<<97>>), Finished>>

=============================================================================
